---------------------------- MODULE Spec2Model ----------------------------
(***************************************************************************)
(* A model of the novelty-detection and scoring core of the trading        *)
(* strategy scout: the text normalizer, the TF-IDF similarity engine and   *)
(* the novelty classifier of agents/dedup_agent.py, the feasibility scorer *)
(* of agents/feasibility_agent.py, and the stage chain and the strategy    *)
(* registration of orchestrator.py.                                        *)
(*                                                                         *)
(* Representation.  A Python string is a sequence of words (the pieces     *)
(* between white space); a list of strings is a sequence of such           *)
(* sequences.  A dict is a function on its keys, so a missing key is a     *)
(* key outside DOMAIN.  A float similarity is an integer number of         *)
(* millionths (0.8 is 800000), computed from squared idf weights in units  *)
(* of 10^-7.                                                               *)
(***************************************************************************)
EXTENDS Integers, Sequences, FiniteSets, TLC

VARIABLES
    disk_db,         \* data/strategy_db.json: the persisted corpus
    pc,              \* position of dedup_agent.run: idle, loop, done, failed
    repos,           \* the batch handed to run(), annotated in place
    idx,             \* index in repos of the next candidate of the for loop
    db,              \* run()'s local db
    existing_texts,  \* run()'s local existing_texts
    results,         \* run()'s local results
    start_db,        \* history: the persisted corpus when this run was entered
    calls,           \* history: per candidate reached, existing_texts and the engine's answer
    writes,          \* history: number of _save_db calls of this run
    prev,            \* history: <<the previous run of the same batch>>, or <<>>
    feas_in,         \* <<the candidate feasibility_agent.run last took>>, or <<>>
    feas_out,        \* <<that candidate, scored>>, or <<>>
    stage,           \* position of orchestrator.run
    collection,      \* the list orchestrator.run holds: repos, analyzed, deduped, scored in turn
    trace,           \* history: per stage that ran, its outcome, what it was handed and how it left it
    scan_disk,       \* data/daily_scans/{date}.json: <<the list>>, or <<>> when missing
    report_disk,     \* reports/{date}_digest.md: <<the digest>>, or <<>> when missing
    active_disk,     \* data/active_strategies.json: <<the list>>, or <<>> when missing
    full_disk,       \* data/daily_scans/{date}_full.json: <<the list>>, or <<>> when missing
    clock            \* datetime.now(): the number of registrations begun so far

\* the variables of orchestrator.run and of the files it and the reporter
\* write
pipeVars == <<stage, collection, trace, scan_disk, report_disk, active_disk,
              full_disk, clock>>

vars == <<disk_db, pc, repos, idx, db, existing_texts, results,
          start_db, calls, writes, prev, feas_in, feas_out,
          stage, collection, trace, scan_disk, report_disk, active_disk,
          full_disk, clock>>

-----------------------------------------------------------------------------
(* Generic helpers.                                                        *)

Range(s) == {s[i] : i \in DOMAIN s}

RECURSIVE Flatten(_)
Flatten(ss) == IF ss = <<>> THEN <<>> ELSE Head(ss) \o Flatten(Tail(ss))

RECURSIVE Sum(_, _)
Sum(f, S) == IF S = {} THEN 0
             ELSE LET x == CHOOSE y \in S : TRUE
                  IN  f[x] + Sum(f, S \ {x})

Max2(a, b) == IF a >= b THEN a ELSE b
Min2(a, b) == IF a <= b THEN a ELSE b

\* dict.get(key, default)
Get(d, key, default) == IF key \in DOMAIN d THEN d[key] ELSE default

\* d[key] = value on a dict (adds the key or replaces its value)
SetKey(d, key, value) ==
    [k \in DOMAIN d \cup {key} |-> IF k = key THEN value ELSE d[k]]

EmptyDict == <<>>

-----------------------------------------------------------------------------
(* Text: words, lower-casing and the analyzer of TfidfVectorizer.          *)

\* str.lower() of one word (words not listed are already lower case)
LowerWord(w) ==
    CASE w = "RSI"   -> "rsi"
      [] w = "MACD"  -> "macd"
      [] w = "Grid"  -> "grid"
      [] w = "The"   -> "the"
      [] w = "No"    -> "no"
      [] w = "Market" -> "market"
      [] w = "Making" -> "making"
      [] w = "Tick"  -> "tick"
      [] w = "Crypto" -> "crypto"
      [] w = "ML"    -> "ml"
      [] w = "SMA"   -> "sma"
      [] w = "EMA"   -> "ema"
      [] w = "ATR"   -> "atr"
      [] w = "Volume" -> "volume"
      [] w = "Profile" -> "profile"
      [] w = "Bollinger" -> "bollinger"
      [] w = "Bands" -> "bands"
      [] w = "On-chain" -> "on-chain"
      [] w = "Buy"   -> "buy"
      [] w = "Sell"  -> "sell"
      [] w = "Strategy" -> "strategy"
      [] w = "README." -> "readme."
      [] OTHER       -> w

Lower(str) == [i \in DOMAIN str |-> LowerWord(str[i])]

\* TfidfVectorizer's token_pattern (?u)\b\w\w+\b applied to one lower-case
\* word: runs of two or more word characters
SplitTokens(w) ==
    CASE w = "mean-reversion" -> <<"mean", "reversion">>
      [] w = "on-chain"       -> <<"on", "chain">>
      [] w = "x"              -> <<>>
      [] w = "1"              -> <<>>
      [] w = "5"              -> <<>>
      [] w = "2"              -> <<>>
      [] w = "described."     -> <<"described">>
      [] w = "crosses."       -> <<"crosses">>
      [] w = "bot."           -> <<"bot">>
      [] w = "readme."        -> <<"readme">>
      [] OTHER                -> <<w>>

\* the members of sklearn's English stop word list among the words used
StopWords == {"the", "and", "no", "not", "on", "of", "in", "to", "is", "when",
              "other"}

RECURSIVE Analyze(_)
\* TfidfVectorizer(stop_words="english").build_analyzer(): lower-case,
\* tokenize, drop stop words
Analyze(str) ==
    IF str = <<>> THEN <<>>
    ELSE SelectSeq(SplitTokens(LowerWord(Head(str))),
                   LAMBDA t : t \notin StopWords) \o Analyze(Tail(str))

\* " ".join(list of strings)
JoinSpace(list) == Flatten(list)

\* not text.strip()
\* variant: no text counts as blank
IsBlankNever(str) == FALSE

IsBlank(str) == str = <<>>

EmptySummaryDict == EmptyDict

\* variant: the status of an earlier classification becomes part of the text
BuildDescriptionTextWithStatus(repo) ==
    LET s == Get(repo, "strategy_summary", EmptySummaryDict)
    IN  Get(repo, "description", <<>>)
        \o Get(s, "core_concept", <<>>)
        \o (IF "dedup_status" \in DOMAIN repo
            THEN <<repo.dedup_status>> ELSE <<>>)
        \o JoinSpace(Get(repo, "topics", <<>>))

\* dedup_agent._build_description_text
BuildDescriptionText(repo) ==
    LET s == Get(repo, "strategy_summary", EmptySummaryDict)
    IN  Get(repo, "description", <<>>)
        \o Get(s, "core_concept", <<>>)
        \o Get(s, "entry_logic", <<>>)
        \o Get(s, "exit_logic", <<>>)
        \o Get(s, "category", <<>>)
        \o Get(s, "asset_class", <<>>)
        \o Get(s, "timeframe", <<>>)
        \o JoinSpace(Get(s, "indicators", <<>>))
        \o JoinSpace(Get(repo, "topics", <<>>))

-----------------------------------------------------------------------------
(* Fixed-point arithmetic for the similarity engine.  Products of two      *)
(* numbers below 2^30 are kept as three limbs of 15 bits so that no        *)
(* intermediate value leaves the 32-bit integers.                          *)

Limb == 2 ^ 15

WideMul(a, b) ==
    LET a1 == a \div Limb  a0 == a % Limb
        b1 == b \div Limb  b0 == b % Limb
        p0 == a0 * b0
        p1 == a1 * b0 + a0 * b1 + (p0 \div Limb)
        p2 == a1 * b1 + (p1 \div Limb)
    IN  <<p2, p1 % Limb, p0 % Limb>>

WideLeq(x, y) ==
    \/ x[1] < y[1]
    \/ x[1] = y[1] /\ x[2] < y[2]
    \/ x[1] = y[1] /\ x[2] = y[2] /\ x[3] <= y[3]

RECURSIVE SqrtSearch(_, _, _)
\* the largest r in lo..hi with r * r <= P (P a wide number)
SqrtSearch(lo, hi, P) ==
    IF lo >= hi THEN lo
    ELSE LET mid == (lo + hi + 1) \div 2
         IN  IF WideLeq(WideMul(mid, mid), P)
             THEN SqrtSearch(mid, hi, P)
             ELSE SqrtSearch(lo, mid - 1, P)

\* floor(sqrt(a * b))
SqrtOfProduct(a, b) == SqrtSearch(Min2(a, b), Max2(a, b), WideMul(a, b))

SimUnit == 1000 * 1000

RECURSIVE RatioSearch(_, _, _, _)
\* the largest k in lo..hi with k * den <= P
RatioSearch(lo, hi, den, P) ==
    IF lo >= hi THEN lo
    ELSE LET mid == (lo + hi + 1) \div 2
         IN  IF WideLeq(WideMul(mid, den), P)
             THEN RatioSearch(mid, hi, den, P)
             ELSE RatioSearch(lo, mid - 1, den, P)

\* num / den in millionths, for 0 <= num <= den
Ratio(num, den) == RatioSearch(0, SimUnit, den, WideMul(num, SimUnit))

-----------------------------------------------------------------------------
(* The similarity engine: TfidfVectorizer.fit_transform and                *)
(* cosine_similarity.                                                      *)

\* (ln((1 + n) / (1 + df)) + 1)^2 in units of 10^-7, rounded, at [n][df]:
\* the square of the idf of TfidfTransformer(smooth_idf=True) for a term
\* that df of the n documents contain
IdfSquaredTable ==
    << <<10000000>>,
       <<19753322, 10000000>>,
       <<28667474, 16581251, 10000000>>,
       <<36721702, 22825941, 14960801, 10000000>>,
       <<44041735, 28667474, 19753322, 13978843, 10000000>>,
       <<50749410, 34125094, 24324014, 17861580, 13320638, 10000000>> >>

Count(doc, t) == Cardinality({i \in DOMAIN doc : doc[i] = t})

\* the vocabulary CountVectorizer learns from the analyzed documents
Vocabulary(docs) == UNION {Range(docs[i]) : i \in DOMAIN docs}

DocFreq(docs, t) == Cardinality({i \in DOMAIN docs : t \in Range(docs[i])})

IdfSquared(docs, t) == IdfSquaredTable[Len(docs)][DocFreq(docs, t)]

\* the inner product of rows i and j of the tf-idf matrix (tf * idf each)
Dot(docs, i, j) ==
    Sum([t \in Vocabulary(docs) |->
             Count(docs[i], t) * Count(docs[j], t) * IdfSquared(docs, t)],
        Vocabulary(docs))

\* cosine_similarity of rows i and j, in millionths; a zero row gives 0.
\* The quotient is cut off after the sixth decimal.  Where that leaves a
\* tie of round(sim, 4) (fifth and sixth decimals 50) although the
\* similarity lies strictly above it, the next millionth stands for the
\* similarity, so that rounding goes the way it goes for the similarity.
CosineSimilarity(docs, i, j) ==
    LET uu  == Dot(docs, i, i)
        vv  == Dot(docs, j, j)
        uv  == Dot(docs, i, j)
        den == SqrtOfProduct(uu, vv)
        Exact(q) == /\ WideMul(den, den) = WideMul(uu, vv)
                    /\ WideMul(q, den) = WideMul(uv, SimUnit)
    IN  IF uu = 0 \/ vv = 0 THEN 0
        ELSE CHOOSE sim \in {IF q % 100 = 50 /\ ~Exact(q) THEN q + 1 ELSE q :
                                 q \in {Ratio(uv, den)}} : TRUE

\* variant: the smallest of the similarities is reported
MinOf(S) == CHOOSE x \in S : \A y \in S : x <= y

RECURSIVE MaxOf(_)
MaxOf(S) == LET x == CHOOSE y \in S : TRUE
            IN  IF S = {x} THEN x ELSE Max2(x, MaxOf(S \ {x}))

\* variant: the new document is also compared with itself, corpus or not
ComputeMaxSimilaritySelf(new_text, texts) ==
    LET corpus == texts \o <<new_text>>
        docs   == [i \in DOMAIN corpus |-> Analyze(corpus[i])]
        n      == Len(docs)
    IN  IF Vocabulary(docs) = {}
        THEN [raised |-> TRUE, value |-> 0]
        ELSE [raised |-> FALSE,
              value  |-> MaxOf({CosineSimilarity(docs, n, i) : i \in 1 .. n})]

\* dedup_agent._compute_max_similarity: the value returned, or raised = TRUE
\* when fit_transform raises ValueError("empty vocabulary")
ComputeMaxSimilarity(new_text, texts) ==
    IF texts = <<>> THEN [raised |-> FALSE, value |-> 0]
    ELSE LET corpus == texts \o <<new_text>>
             docs   == [i \in DOMAIN corpus |-> Analyze(corpus[i])]
             n      == Len(docs)
         IN  IF Vocabulary(docs) = {}
             THEN [raised |-> TRUE, value |-> 0]
             ELSE [raised |-> FALSE,
                   value  |-> MaxOf({CosineSimilarity(docs, n, i) :
                                       i \in 1 .. n - 1})]

\* round(sim, 4) of the double nearest to s millionths, in millionths.  Off
\* a tie the double rounds as its decimal does.  On a tie (the fifth and
\* sixth decimals are 50) round() rounds the double itself, half to even:
\* the double is s * 2^t / 15625 rounded to an integer, over 2^(t + 6), for
\* the t that puts it in [2^52, 2^53), so it lies above the tie, on it or
\* below it as the remainder of s * 2^t by 15625 is more than half of
\* 15625, zero or less than half.
Round4(s) ==
    LET q == s \div 100
        r == s % 100
        RECURSIVE PowerOfTwo(_)
        PowerOfTwo(t) == IF t = 0 THEN 1
                         ELSE (2 * PowerOfTwo(t - 1)) % 15625
        exponent ==
            IF s >= 15625
            THEN 52 - CHOOSE j \in 0 .. 6 :
                          15625 * 2 ^ j <= s /\ s < 15625 * 2 ^ (j + 1)
            ELSE 52 + CHOOSE k \in 1 .. 14 :
                          15625 <= s * 2 ^ k /\ s * 2 ^ k < 31250
        rem == ((s % 15625) * PowerOfTwo(exponent)) % 15625
        up == \/ r > 50
              \/ /\ r = 50
                 /\ IF rem = 0 THEN q % 2 = 1 ELSE 2 * rem > 15625
    IN  100 * (IF up THEN q + 1 ELSE q)

DUPLICATE_THRESHOLD == 800000
NOVEL_THRESHOLD == 500000

\* variant: both comparisons are made against the duplicate threshold
ClassifyOneThreshold(sim) ==
    IF sim > DUPLICATE_THRESHOLD THEN "duplicate"
    ELSE IF sim < DUPLICATE_THRESHOLD THEN "novel"
    ELSE "similar"

\* variant: the duplicate comparison taken as inclusive
ClassifyInclusive(sim) ==
    IF sim >= DUPLICATE_THRESHOLD THEN "duplicate"
    ELSE IF sim < NOVEL_THRESHOLD THEN "novel"
    ELSE "similar"

\* dedup_agent.run, lines 112-122: the three-way decision on the similarity
Classify(sim) ==
    IF sim > DUPLICATE_THRESHOLD THEN "duplicate"
    ELSE IF sim < NOVEL_THRESHOLD THEN "novel"
    ELSE "similar"

-----------------------------------------------------------------------------
(* Bounds and the candidates the batches are drawn from.                   *)

\* a run starts only if the persisted corpus and the batch together hold at
\* most MaxDocs documents
MaxDocs == 3

\* Scout records (repo_name, description, topics), some with fields of a
\* strategy_summary.  Their normalized texts are: blank; only a stop word;
\* "rsi RSI Grid grid MACD trend"; "rsi grid trend macd trend macd";
\* "RSI rsi rsi grid RSI trend"; "trend rsi trend trend grid trend".
CandBlank == [repo_name |-> "o/blank", description |-> <<>>, topics |-> <<>>]
CandStop  == [repo_name |-> "o/stop", description |-> <<"The">>,
              topics |-> <<>>]
CandD1    == [repo_name |-> "o/d1", description |-> <<"rsi", "RSI">>,
              topics |-> << <<"trend">> >>,
              strategy_summary |-> [core_concept |-> <<"Grid", "grid">>,
                                    indicators |-> << <<"MACD">> >>]]
CandD2    == [repo_name |-> "o/d2", description |-> <<"rsi", "grid">>,
              topics |-> <<>>,
              strategy_summary |-> [entry_logic |-> <<"trend", "macd">>,
                                    exit_logic |-> <<"trend", "macd">>]]
CandD3    == [repo_name |-> "o/d3", description |-> <<"RSI", "rsi">>,
              topics |-> << <<"trend">> >>,
              strategy_summary |-> [core_concept |-> <<"rsi", "grid">>,
                                    indicators |-> << <<"RSI">> >>]]
CandD4    == [repo_name |-> "o/d4",
              description |-> <<"trend", "rsi", "trend">>,
              topics |-> << <<"grid">>, <<"trend">> >>,
              strategy_summary |-> [category |-> <<"trend">>]]

Candidates == {CandBlank, CandStop, CandD1, CandD2, CandD3, CandD4}

Batches == UNION {[1 .. n -> Candidates] : n \in 0 .. MaxDocs}

-----------------------------------------------------------------------------
(* dedup_agent.run as a state machine: load, one step per candidate of the *)
(* for loop, save.                                                         *)

\* the contents of a file that json cannot parse
NotJson == <<[corrupt |-> TRUE]>>

\* dedup_agent._load_db: json.load raises on a file it cannot parse
LoadDbRaises == disk_db = NotJson

\* dedup_agent._load_db (the file exists, or is missing and reads as [])
LoadDb == disk_db

TextsOf(entries) == [i \in DOMAIN entries |-> BuildDescriptionText(entries[i])]

DedupInit ==
    /\ disk_db = <<>>
    /\ pc = "idle"
    /\ repos = <<>>
    /\ idx = 1
    /\ db = <<>>
    /\ existing_texts = <<>>
    /\ results = <<>>
    /\ start_db = <<>>
    /\ calls = <<>>
    /\ writes = 0
    /\ prev = <<>>

\* orchestrator.run has not been called and no file of its own exists
PipeIdle ==
    /\ stage = "off"
    /\ collection = <<>>
    /\ trace = <<>>
    /\ scan_disk = <<>>
    /\ report_disk = <<>>
    /\ active_disk = <<>>
    /\ full_disk = <<>>
    /\ clock = 0

\* the entry of run(), lines 87-99, for the batch given
Enter(batch) ==
    /\ Len(disk_db) + Len(batch) <= MaxDocs
    /\ repos' = batch
    /\ IF LoadDbRaises
       THEN /\ db' = <<>>
            /\ existing_texts' = <<>>
            /\ pc' = "failed"
       ELSE /\ db' = LoadDb
            /\ existing_texts' = TextsOf(LoadDb)
            /\ pc' = "loop"
    /\ results' = <<>>
    /\ idx' = 1
    /\ start_db' = disk_db
    /\ calls' = <<>>
    /\ writes' = 0
    /\ UNCHANGED disk_db

\* run(repos=batch) on a fresh batch
StartRun(batch) ==
    /\ pc = "idle"
    /\ Enter(batch)
    /\ prev' = <<>>
    /\ UNCHANGED <<feas_in, feas_out>>
    /\ UNCHANGED pipeVars

\* variant: the result is a new dict of the name and the two annotations
AnnotateAfresh(repo, sim) ==
    [repo_name      |-> repo.repo_name,
     max_similarity |-> Round4(sim),
     dedup_status   |-> Classify(sim)]

\* the annotated candidate after lines 109-127, given the similarity
Annotate(repo, sim) ==
    SetKey(SetKey(repo, "max_similarity", Round4(sim)),
           "dedup_status", Classify(sim))

\* lines 103-107: a blank text is novel with similarity 0.0
AnnotateBlank(repo) ==
    SetKey(SetKey(repo, "dedup_status", "novel"), "max_similarity", 0)

\* variants: every classified candidate is appended; none is
IsAddedAlways(status) == TRUE
IsAddedNever(status) == FALSE

\* whether lines 112-127 append the candidate to db and existing_texts
IsAdded(status) == status # "duplicate"

\* variant: every candidate is compared against the texts loaded at the start
AppendTextSnapshot(texts, new_text) == texts

\* lines 119 and 126: existing_texts.append(new_text)
AppendText(texts, new_text) == Append(texts, new_text)

\* variant: the file is rewritten after every candidate
LoopDiskEffectSave(entries) ==
    /\ disk_db' = entries
    /\ writes' = writes + 1

\* the for loop never calls _save_db: the file is as it was
LoopDiskEffect(entries) == UNCHANGED <<disk_db, writes>>

\* one iteration of the for loop, lines 101-129
ProcessCandidate ==
    /\ pc = "loop"
    /\ idx <= Len(repos)
    /\ LET repo     == repos[idx]
           new_text == BuildDescriptionText(repo)
       IN  IF IsBlank(new_text)
           THEN /\ repos' = [repos EXCEPT ![idx] = AnnotateBlank(repo)]
                /\ results' = Append(results, AnnotateBlank(repo))
                /\ calls' = Append(calls, [invoked |-> FALSE, raised |-> FALSE,
                                           texts |-> existing_texts, sim |-> 0])
                /\ idx' = idx + 1
                /\ UNCHANGED <<db, existing_texts, pc>>
           ELSE \E r \in {ComputeMaxSimilarity(new_text, existing_texts)} :
                IF r.raised
                THEN /\ pc' = "failed"
                     /\ calls' = Append(calls,
                                        [invoked |-> TRUE, raised |-> TRUE,
                                         texts |-> existing_texts, sim |-> 0])
                     /\ UNCHANGED <<repos, results, idx, db, existing_texts>>
                ELSE \E done \in {Annotate(repo, r.value)} :
                     /\ repos' = [repos EXCEPT ![idx] = done]
                     /\ results' = Append(results, done)
                     /\ calls' = Append(calls,
                                        [invoked |-> TRUE, raised |-> FALSE,
                                         texts |-> existing_texts,
                                         sim |-> r.value])
                     /\ idx' = idx + 1
                     /\ IF IsAdded(done.dedup_status)
                        THEN /\ db' = Append(db, done)
                             /\ existing_texts' =
                                    AppendText(existing_texts, new_text)
                        ELSE UNCHANGED <<db, existing_texts>>
                     /\ UNCHANGED pc
    /\ LoopDiskEffect(db')
    /\ UNCHANGED <<start_db, prev, feas_in, feas_out>>
    /\ UNCHANGED pipeVars

\* dedup_agent._save_db: the file is rewritten with the whole list
SaveDb(entries) ==
    /\ disk_db' = entries
    /\ writes' = writes + 1

\* lines 131-139: persist the corpus and return results
FinishRun ==
    /\ pc = "loop"
    /\ idx > Len(repos)
    /\ SaveDb(db)
    /\ pc' = "done"
    /\ UNCHANGED <<repos, idx, db, existing_texts, results, start_db,
                   calls, prev, feas_in, feas_out>>
    /\ UNCHANGED pipeVars

\* run() has returned or raised: its locals are gone
Return ==
    /\ pc \in {"done", "failed"}
    /\ pc' = "idle"
    /\ repos' = <<>>
    /\ idx' = 1
    /\ db' = <<>>
    /\ existing_texts' = <<>>
    /\ results' = <<>>
    /\ start_db' = <<>>
    /\ calls' = <<>>
    /\ writes' = 0
    /\ prev' = <<>>
    /\ UNCHANGED <<disk_db, feas_in, feas_out>>
    /\ UNCHANGED pipeVars

\* the caller keeps the list run() annotated in place, and the corpus file
\* is put back to what it was when that run was entered
RestoreCorpus ==
    /\ pc \in {"done", "failed"}
    /\ prev = <<>>
    /\ disk_db' = start_db
    /\ prev' = <<[outcome |-> pc, results |-> results]>>
    /\ pc' = "restored"
    /\ UNCHANGED <<repos, idx, db, existing_texts, results, start_db, calls,
                   writes, feas_in, feas_out>>
    /\ UNCHANGED pipeVars

\* run(repos) once more on the same list
Rerun ==
    /\ pc = "restored"
    /\ Enter(repos)
    /\ UNCHANGED <<prev, feas_in, feas_out>>
    /\ UNCHANGED pipeVars

Init == DedupInit /\ feas_in = <<>> /\ feas_out = <<>> /\ PipeIdle

Next ==
    \/ \E batch \in Batches : StartRun(batch)
    \/ ProcessCandidate
    \/ FinishRun
    \/ Return
    \/ RestoreCorpus
    \/ Rerun

Spec == Init /\ [][Next]_vars

-----------------------------------------------------------------------------
(* The end-to-end scenario of a batch of three candidates with pairwise    *)
(* different texts on an empty corpus.                                     *)

\* two more candidates handed to dedup_agent.run, whose terms no other
\* candidate has
CandE1 == [repo_name |-> "o/e1", description |-> <<"Bollinger", "Bands">>,
           topics |-> <<>>]
CandE2 == [repo_name |-> "o/e2", description |-> <<"Volume", "Profile">>,
           topics |-> << <<"ema">> >>]

\* two pairs of candidates whose similarity is just off a threshold:
\* o/u1 and o/u2 have cosine 0.800008, o/n1 and o/n2 have 0.499979
EdgeCandidates ==
    {[repo_name |-> "o/u1", topics |-> <<>>,
      description |-> <<"grid", "macd", "trend", "trend",
                        "ema", "ema", "ema", "ema">>],
     [repo_name |-> "o/u2", topics |-> <<>>,
      description |-> <<"rsi", "macd", "macd", "macd", "trend", "trend",
                        "trend", "trend", "ema", "ema", "ema">>],
     [repo_name |-> "o/n1", topics |-> <<>>,
      description |-> <<"macd", "trend", "trend",
                        "ema", "ema", "ema", "ema">>],
     [repo_name |-> "o/n2", topics |-> <<>>,
      description |-> <<"rsi", "rsi", "grid", "grid", "grid", "trend",
                        "ema", "ema", "ema">>]}

\* the batches of three candidates whose normalized texts differ pairwise:
\* three of the short records, or three of the records of the two pairs and
\* o/e1
DistinctTriples ==
    {b \in [1 .. 3 -> Candidates \cup {CandE1, CandE2}]
           \cup [1 .. 3 -> EdgeCandidates \cup {CandE1}] :
         \A i, j \in 1 .. 3 :
             i # j => BuildDescriptionText(b[i]) # BuildDescriptionText(b[j])}

\* run(repos=batch) on such a batch, with no corpus file or an empty one
StartThree ==
    /\ disk_db = <<>>
    /\ \E batch \in DistinctTriples : StartRun(batch)

ThreeNext ==
    \/ StartThree
    \/ ProcessCandidate
    \/ FinishRun

SpecThree == Init /\ [][ThreeNext]_vars

-----------------------------------------------------------------------------
(* agents/feasibility_agent.py: the five sub-scores, the overall score and *)
(* the recommendation.  Scores with two decimals are integers in           *)
(* hundredths (7.0 is 700), and so are the weights (0.20 is 20).           *)

\* the characters of the words and names that occur: a str is handled word
\* by word, and a word character by character
Spelling ==
       ("" :> <<>>)
    @@ ("1" :> <<"1">>)
    @@ ("15" :> <<"1", "5">>)
    @@ ("2" :> <<"2">>)
    @@ ("5" :> <<"5">>)
    @@ ("ATR" :> <<"A", "T", "R">>)
    @@ ("Bands" :> <<"B", "a", "n", "d", "s">>)
    @@ ("Bollinger" :> <<"B", "o", "l", "l", "i", "n", "g", "e", "r">>)
    @@ ("Crypto" :> <<"C", "r", "y", "p", "t", "o">>)
    @@ ("EMA" :> <<"E", "M", "A">>)
    @@ ("Grid" :> <<"G", "r", "i", "d">>)
    @@ ("MACD" :> <<"M", "A", "C", "D">>)
    @@ ("ML" :> <<"M", "L">>)
    @@ ("Making" :> <<"M", "a", "k", "i", "n", "g">>)
    @@ ("Market" :> <<"M", "a", "r", "k", "e", "t">>)
    @@ ("No" :> <<"N", "o">>)
    @@ ("Profile" :> <<"P", "r", "o", "f", "i", "l", "e">>)
    @@ ("RSI" :> <<"R", "S", "I">>)
    @@ ("SMA" :> <<"S", "M", "A">>)
    @@ ("The" :> <<"T", "h", "e">>)
    @@ ("Tick" :> <<"T", "i", "c", "k">>)
    @@ ("Volume" :> <<"V", "o", "l", "u", "m", "e">>)
    @@ ("A/B_C" :> <<"A", "/", "B", "_", "C">>)
    @@ ("Unnamed Strategy" :> <<"U", "n", "n", "a", "m", "e", "d", " ",
                "S", "t", "r", "a", "t", "e", "g", "y">>)
    @@ ("_grid 2!" :> <<"_", "g", "r", "i", "d", " ", "2", "!">>)
    @@ ("a-b/c" :> <<"a", "-", "b", "/", "c">>)
    @@ ("a/b-c" :> <<"a", "/", "b", "-", "c">>)
    @@ ("o/blank" :> <<"o", "/", "b", "l", "a", "n", "k">>)
    @@ ("o/d1" :> <<"o", "/", "d", "1">>)
    @@ ("o/d2" :> <<"o", "/", "d", "2">>)
    @@ ("o/d3" :> <<"o", "/", "d", "3">>)
    @@ ("o/d4" :> <<"o", "/", "d", "4">>)
    @@ ("o/e1" :> <<"o", "/", "e", "1">>)
    @@ ("o/e2" :> <<"o", "/", "e", "2">>)
    @@ ("o/n1" :> <<"o", "/", "n", "1">>)
    @@ ("o/n2" :> <<"o", "/", "n", "2">>)
    @@ ("o/r1" :> <<"o", "/", "r", "1">>)
    @@ ("o/r2" :> <<"o", "/", "r", "2">>)
    @@ ("o/r3" :> <<"o", "/", "r", "3">>)
    @@ ("o/r4" :> <<"o", "/", "r", "4">>)
    @@ ("o/r5" :> <<"o", "/", "r", "5">>)
    @@ ("o/r6" :> <<"o", "/", "r", "6">>)
    @@ ("o/r7" :> <<"o", "/", "r", "7">>)
    @@ ("o/r8" :> <<"o", "/", "r", "8">>)
    @@ ("o/r9" :> <<"o", "/", "r", "9">>)
    @@ ("o/r10" :> <<"o", "/", "r", "1", "0">>)
    @@ ("o/s" :> <<"o", "/", "s">>)
    @@ ("o/stop" :> <<"o", "/", "s", "t", "o", "p">>)
    @@ ("o/u1" :> <<"o", "/", "u", "1">>)
    @@ ("o/u2" :> <<"o", "/", "u", "2">>)
    @@ ("p/stop" :> <<"p", "/", "s", "t", "o", "p">>)
    @@ ("alternative" :> <<"a", "l", "t", "e", "r", "n", "a", "t", "i",
                "v", "e">>)
    @@ ("and" :> <<"a", "n", "d">>)
    @@ ("arbitrage" :> <<"a", "r", "b", "i", "t", "r", "a", "g", "e">>)
    @@ ("atr" :> <<"a", "t", "r">>)
    @@ ("backtest" :> <<"b", "a", "c", "k", "t", "e", "s", "t">>)
    @@ ("backtesting" :> <<"b", "a", "c", "k", "t", "e", "s", "t", "i",
                "n", "g">>)
    @@ ("bands" :> <<"b", "a", "n", "d", "s">>)
    @@ ("bollinger" :> <<"b", "o", "l", "l", "i", "n", "g", "e", "r">>)
    @@ ("breakout" :> <<"b", "r", "e", "a", "k", "o", "u", "t">>)
    @@ ("buy" :> <<"b", "u", "y">>)
    @@ ("chain" :> <<"c", "h", "a", "i", "n">>)
    @@ ("crosses" :> <<"c", "r", "o", "s", "s", "e", "s">>)
    @@ ("crypto" :> <<"c", "r", "y", "p", "t", "o">>)
    @@ ("daily" :> <<"d", "a", "i", "l", "y">>)
    @@ ("dark" :> <<"d", "a", "r", "k">>)
    @@ ("data" :> <<"d", "a", "t", "a">>)
    @@ ("described" :> <<"d", "e", "s", "c", "r", "i", "b", "e", "d">>)
    @@ ("described." :> <<"d", "e", "s", "c", "r", "i", "b", "e", "d", ".">>)
    @@ ("ema" :> <<"e", "m", "a">>)
    @@ ("engine" :> <<"e", "n", "g", "i", "n", "e">>)
    @@ ("entry" :> <<"e", "n", "t", "r", "y">>)
    @@ ("equities" :> <<"e", "q", "u", "i", "t", "i", "e", "s">>)
    @@ ("exit" :> <<"e", "x", "i", "t">>)
    @@ ("explicit" :> <<"e", "x", "p", "l", "i", "c", "i", "t">>)
    @@ ("feed" :> <<"f", "e", "e", "d">>)
    @@ ("flow" :> <<"f", "l", "o", "w">>)
    @@ ("forex" :> <<"f", "o", "r", "e", "x">>)
    @@ ("framework" :> <<"f", "r", "a", "m", "e", "w", "o", "r", "k">>)
    @@ ("futures" :> <<"f", "u", "t", "u", "r", "e", "s">>)
    @@ ("grid" :> <<"g", "r", "i", "d">>)
    @@ ("hyperliquid" :> <<"h", "y", "p", "e", "r", "l", "i", "q", "u",
                "i", "d">>)
    @@ ("in" :> <<"i", "n">>)
    @@ ("infrastructure" :> <<"i", "n", "f", "r", "a", "s", "t", "r",
                "u", "c", "t", "u", "r", "e">>)
    @@ ("is" :> <<"i", "s">>)
    @@ ("level" :> <<"l", "e", "v", "e", "l">>)
    @@ ("leverage" :> <<"l", "e", "v", "e", "r", "a", "g", "e">>)
    @@ ("library" :> <<"l", "i", "b", "r", "a", "r", "y">>)
    @@ ("logic" :> <<"l", "o", "g", "i", "c">>)
    @@ ("macd" :> <<"m", "a", "c", "d">>)
    @@ ("making" :> <<"m", "a", "k", "i", "n", "g">>)
    @@ ("market" :> <<"m", "a", "r", "k", "e", "t">>)
    @@ ("mean" :> <<"m", "e", "a", "n">>)
    @@ ("mean-reversion" :> <<"m", "e", "a", "n", "-", "r", "e", "v",
                "e", "r", "s", "i", "o", "n">>)
    @@ ("microstructure" :> <<"m", "i", "c", "r", "o", "s", "t", "r",
                "u", "c", "t", "u", "r", "e">>)
    @@ ("minute" :> <<"m", "i", "n", "u", "t", "e">>)
    @@ ("minutes" :> <<"m", "i", "n", "u", "t", "e", "s">>)
    @@ ("ml" :> <<"m", "l">>)
    @@ ("momentum" :> <<"m", "o", "m", "e", "n", "t", "u", "m">>)
    @@ ("news" :> <<"n", "e", "w", "s">>)
    @@ ("no" :> <<"n", "o">>)
    @@ ("not" :> <<"n", "o", "t">>)
    @@ ("of" :> <<"o", "f">>)
    @@ ("on" :> <<"o", "n">>)
    @@ ("on-chain" :> <<"o", "n", "-", "c", "h", "a", "i", "n">>)
    @@ ("options" :> <<"o", "p", "t", "i", "o", "n", "s">>)
    @@ ("order" :> <<"o", "r", "d", "e", "r">>)
    @@ ("orderbook" :> <<"o", "r", "d", "e", "r", "b", "o", "o", "k">>)
    @@ ("other" :> <<"o", "t", "h", "e", "r">>)
    @@ ("perp" :> <<"p", "e", "r", "p">>)
    @@ ("perpetual" :> <<"p", "e", "r", "p", "e", "t", "u", "a", "l">>)
    @@ ("pipeline" :> <<"p", "i", "p", "e", "l", "i", "n", "e">>)
    @@ ("platform" :> <<"p", "l", "a", "t", "f", "o", "r", "m">>)
    @@ ("pool" :> <<"p", "o", "o", "l">>)
    @@ ("profile" :> <<"p", "r", "o", "f", "i", "l", "e">>)
    @@ ("reversion" :> <<"r", "e", "v", "e", "r", "s", "i", "o", "n">>)
    @@ ("rsi" :> <<"r", "s", "i">>)
    @@ ("satellite" :> <<"s", "a", "t", "e", "l", "l", "i", "t", "e">>)
    @@ ("sdk" :> <<"s", "d", "k">>)
    @@ ("sell" :> <<"s", "e", "l", "l">>)
    @@ ("sentiment" :> <<"s", "e", "n", "t", "i", "m", "e", "n", "t">>)
    @@ ("sma" :> <<"s", "m", "a">>)
    @@ ("specified" :> <<"s", "p", "e", "c", "i", "f", "i", "e", "d">>)
    @@ ("statistical" :> <<"s", "t", "a", "t", "i", "s", "t", "i", "c",
                "a", "l">>)
    @@ ("strategy" :> <<"s", "t", "r", "a", "t", "e", "g", "y">>)
    @@ ("the" :> <<"t", "h", "e">>)
    @@ ("tick" :> <<"t", "i", "c", "k">>)
    @@ ("to" :> <<"t", "o">>)
    @@ ("toolkit" :> <<"t", "o", "o", "l", "k", "i", "t">>)
    @@ ("trend" :> <<"t", "r", "e", "n", "d">>)
    @@ ("volume" :> <<"v", "o", "l", "u", "m", "e">>)
    @@ ("when" :> <<"w", "h", "e", "n">>)
    @@ ("x" :> <<"x">>)
    @@ ("On-chain" :> <<"O", "n", "-", "c", "h", "a", "i", "n">>)
    @@ ("bot." :> <<"b", "o", "t", ".">>)
    @@ ("bot" :> <<"b", "o", "t">>)
    @@ ("Buy" :> <<"B", "u", "y">>)
    @@ ("Sell" :> <<"S", "e", "l", "l">>)
    @@ ("price" :> <<"p", "r", "i", "c", "e">>)
    @@ ("crosses." :> <<"c", "r", "o", "s", "s", "e", "s", ".">>)

\* the characters of a word or name
    @@ ("Strategy" :> <<"S", "t", "r", "a", "t", "e", "g", "y">>)
    @@ ("concept" :> <<"c", "o", "n", "c", "e", "p", "t">>)
    @@ ("clearly" :> <<"c", "l", "e", "a", "r", "l", "y">>)
    @@ ("README." :> <<"R", "E", "A", "D", "M", "E", ".">>)
    @@ ("readme." :> <<"r", "e", "a", "d", "m", "e", ".">>)
    @@ ("readme" :> <<"r", "e", "a", "d", "m", "e">>)

Chars(name) == Spelling[name]

\* w.startswith(k)
WordStartsWith(w, k) ==
    \/ w = k
    \/ \E cw \in {Chars(w)}, ck \in {Chars(k)} :
           /\ Len(ck) <= Len(cw)
           /\ SubSeq(cw, 1, Len(ck)) = ck

\* w.endswith(k)
WordEndsWith(w, k) ==
    \/ w = k
    \/ \E cw \in {Chars(w)}, ck \in {Chars(k)} :
           /\ Len(ck) <= Len(cw)
           /\ SubSeq(cw, Len(cw) - Len(ck) + 1, Len(cw)) = ck

\* k in w, for a k without a space
WordContains(w, k) ==
    \/ w = k
    \/ \E cw \in {Chars(w)}, ck \in {Chars(k)} :
           \E i \in 0 .. Len(cw) - Len(ck) :
               SubSeq(cw, i + 1, i + Len(ck)) = ck

\* kw in str, for Python strings: kw occurs at word i of str
OccursAt(str, kw, i) ==
    /\ i + Len(kw) - 1 <= Len(str)
    /\ \A j \in 1 .. Len(kw) :
           LET w == str[i + j - 1]
           IN  IF Len(kw) = 1 THEN WordContains(w, kw[j])
               ELSE IF j = 1 THEN WordEndsWith(w, kw[j])
               ELSE IF j = Len(kw) THEN WordStartsWith(w, kw[j])
               ELSE w = kw[j]

Contains(str, kw) == \E i \in 1 .. Len(str) : OccursAt(str, kw, i)

\* int(w) for the words that are runs of digits, -1 for the others
NumberOf(w) ==
    CASE w = "1" -> 1 [] w = "2" -> 2 [] w = "5" -> 5 [] w = "15" -> 15
      [] OTHER -> -1

\* re.search(r"(\d+)", timeframe): <<the first number>>, or <<>> for None
FirstNumber(str) ==
    LET at == {i \in DOMAIN str : NumberOf(str[i]) >= 0}
    IN  IF at = {} THEN <<>>
        ELSE <<NumberOf(str[CHOOSE i \in at : \A j \in at : i <= j])>>

\* variant: the score is returned as computed
NoClamp(score) == score

\* max(1, min(10, score))
Clamp(score) == Max2(1, Min2(10, score))

\* _score_implementation_complexity
ScoreImplementationComplexity(summary) ==
    LET indicators == Get(summary, "indicators", <<>>)
        category   == Get(summary, "category", <<>>)
        entry      == Lower(Get(summary, "entry_logic", <<>>))
        exit_logic == Lower(Get(summary, "exit_logic", <<>>))
        score == 5
            + (IF Len(indicators) <= 2 THEN 2
               ELSE IF Len(indicators) <= 4 THEN 1
               ELSE IF Len(indicators) > 6 THEN -2 ELSE 0)
            + (IF category = <<"ML">> THEN -3
               ELSE IF category \in {<<"momentum">>, <<"mean-reversion">>,
                                     <<"breakout">>} THEN 1 ELSE 0)
            + (IF ~Contains(entry, <<"no", "explicit">>) THEN 1 ELSE 0)
            + (IF ~Contains(exit_logic, <<"no", "explicit">>) THEN 1 ELSE 0)
    IN  Clamp(score)

\* _score_capital_efficiency
ScoreCapitalEfficiency(summary) ==
    LET asset     == Lower(Get(summary, "asset_class", <<>>))
        category  == Get(summary, "category", <<>>)
        timeframe == Lower(Get(summary, "timeframe", <<>>))
        concept   == Lower(Get(summary, "core_concept", <<>>))
        score == 5
            + (IF asset = <<"crypto">> THEN 3
               ELSE IF asset = <<"forex">> THEN 1
               ELSE IF asset \in {<<"futures">>, <<"options">>} THEN -1
               ELSE IF asset = <<"equities">> THEN -1 ELSE 0)
            + (IF category = <<"arbitrage">> THEN -2 ELSE 0)
            + (IF Contains(concept, <<"market", "making">>) THEN -2 ELSE 0)
            + (IF Contains(timeframe, <<"minute">>)
                  \/ Contains(timeframe, <<"tick">>) THEN -1 ELSE 0)
    IN  Clamp(score)

CrowdedIndicators == {<<"SMA">>, <<"EMA">>, <<"MACD">>, <<"RSI">>}

NovelKeywords == {<<"alternative", "data">>, <<"sentiment">>, <<"on-chain">>,
                  <<"orderbook">>, <<"microstructure">>}

\* _score_edge_durability
ScoreEdgeDurability(summary) ==
    LET category      == Get(summary, "category", <<>>)
        concept       == Lower(Get(summary, "core_concept", <<>>))
        indicators    == Get(summary, "indicators", <<>>)
        crowded_count == Cardinality(Range(indicators) \cap CrowdedIndicators)
        score == 5
            + (IF crowded_count >= 3 THEN -2
               ELSE IF crowded_count >= 2 THEN -1 ELSE 0)
            + (IF category = <<"ML">> THEN 1
               ELSE IF category = <<"statistical">> THEN 1 ELSE 0)
            - 1
            + (IF \E kw \in NovelKeywords : Contains(concept, kw)
               THEN 2 ELSE 0)
    IN  Clamp(score)

LeverageKeywords == {<<"perpetual">>, <<"perp">>, <<"leverage">>,
                     <<"futures">>}

\* _score_platform_compatibility
ScorePlatformCompatibility(summary) ==
    LET asset     == Lower(Get(summary, "asset_class", <<>>))
        timeframe == Lower(Get(summary, "timeframe", <<>>))
        concept   == Lower(Get(summary, "core_concept", <<>>))
        val       == FirstNumber(timeframe)
        score == 5
            + (IF asset = <<"crypto">> THEN 3
               ELSE IF asset \in {<<"equities">>, <<"forex">>} THEN -1
               ELSE IF asset = <<"not", "specified">> THEN 1 ELSE 0)
            + (IF \E kw \in LeverageKeywords : Contains(concept, kw)
               THEN 1 ELSE 0)
            + (IF Contains(timeframe, <<"tick">>) THEN -2
               ELSE IF Contains(timeframe, <<"minute">>)
                       /\ val # <<>> /\ val[1] < 5 THEN -1 ELSE 0)
    IN  Clamp(score)

ExpensiveKeywords ==
    << <<"alternative", "data">>, <<"satellite">>, <<"sentiment">>,
       <<"news", "feed">>, <<"order", "flow">>, <<"level", "2">>,
       <<"options", "chain">>, <<"dark", "pool">> >>

\* _score_data_requirements
ScoreDataRequirements(summary) ==
    LET concept    == Lower(Get(summary, "core_concept", <<>>))
        indicators == Get(summary, "indicators", <<>>)
        score == 7
            - 2 * Cardinality({i \in DOMAIN ExpensiveKeywords :
                                   Contains(concept, ExpensiveKeywords[i])})
            + (IF <<"Volume", "Profile">> \in Range(indicators)
               THEN -1 ELSE 0)
            + (IF Contains(concept, <<"on-chain">>) THEN 1 ELSE 0)
    IN  Clamp(score)

\* variant: edge durability weighs 0.30, so the weights add up to 1.05
WeightsHeavyEdge == [implementation_complexity |-> 20,
                     capital_efficiency        |-> 25,
                     edge_durability           |-> 30,
                     platform_compatibility    |-> 15,
                     data_requirements         |-> 15]

\* variant: two weights lie off the 0.05 grid; the weights still add up to 1
WeightsOffGrid == [implementation_complexity |-> 22,
                   capital_efficiency        |-> 25,
                   edge_durability           |-> 25,
                   platform_compatibility    |-> 13,
                   data_requirements         |-> 15]

\* WEIGHTS, in hundredths
WEIGHTS == [implementation_complexity |-> 20,
            capital_efficiency        |-> 25,
            edge_durability           |-> 25,
            platform_compatibility    |-> 15,
            data_requirements         |-> 15]

PURSUE_THRESHOLD == 700
MONITOR_THRESHOLD == 450

\* variant: an overall score on a threshold falls to the lower band
RecommendationExclusive(overall) ==
    IF overall > PURSUE_THRESHOLD THEN "pursue"
    ELSE IF overall > MONITOR_THRESHOLD THEN "monitor" ELSE "skip"

\* _compute_feasibility, lines 190-195: the band of an overall score given in
\* hundredths
Recommendation(overall) ==
    IF overall >= PURSUE_THRESHOLD THEN "pursue"
    ELSE IF overall >= MONITOR_THRESHOLD THEN "monitor" ELSE "skip"

\* _compute_feasibility.  The weighted sum is a whole number of hundredths,
\* which round(..., 2) leaves as it is.
ComputeFeasibility(summary) ==
    LET scores ==
            [implementation_complexity |->
                 ScoreImplementationComplexity(summary),
             capital_efficiency        |-> ScoreCapitalEfficiency(summary),
             edge_durability           |-> ScoreEdgeDurability(summary),
             platform_compatibility    |-> ScorePlatformCompatibility(summary),
             data_requirements         |-> ScoreDataRequirements(summary)]
        overall == Sum([k \in DOMAIN WEIGHTS |-> scores[k] * WEIGHTS[k]],
                       DOMAIN WEIGHTS)
    IN  [scores         |-> scores,
         overall_score  |-> overall,
         recommendation |-> Recommendation(overall)]

\* feasibility_agent.run, lines 232-236: what a duplicate gets
DuplicateFeasibility ==
    [scores |-> EmptyDict, overall_score |-> 0,
     recommendation |-> "skip (duplicate)"]

\* variant: a duplicate is scored like any other candidate
ScoreRepoAlways(repo) ==
    SetKey(repo, "feasibility",
           ComputeFeasibility(Get(repo, "strategy_summary",
                                  EmptySummaryDict)))

\* one iteration of the for loop of feasibility_agent.run, lines 226-248
ScoreRepo(repo) ==
    LET dedup_status == Get(repo, "dedup_status", "novel")
        summary      == Get(repo, "strategy_summary", EmptySummaryDict)
    IN  IF dedup_status = "duplicate"
        THEN SetKey(repo, "feasibility", DuplicateFeasibility)
        ELSE SetKey(repo, "feasibility", ComputeFeasibility(summary))

-----------------------------------------------------------------------------
(* The scorer on its own: feasibility_agent.run is handed a candidate      *)
(* drawn from the Strategy Summaries below and scores it.                  *)

\* indicator lists hold up to MaxIndicators names
MaxIndicators == 7
\* a core_concept mentions up to MaxKeywords of the data keywords
MaxKeywords == 8

IndicatorPool ==
    << <<"SMA">>, <<"EMA">>, <<"MACD">>, <<"RSI">>, <<"Volume", "Profile">>,
       <<"ATR">>, <<"Bollinger", "Bands">> >>

\* the first k names of IndicatorPool, taken round again past its end
IndicatorList(k) ==
    [i \in 1 .. k |-> IndicatorPool[((i - 1) % Len(IndicatorPool)) + 1]]

\* the first k keywords of ExpensiveKeywords, taken round again past the end
KeywordText(k) ==
    Flatten([i \in 1 .. k |->
                 ExpensiveKeywords[((i - 1) % Len(ExpensiveKeywords)) + 1]])

IndicatorChoices == {IndicatorList(k) : k \in 0 .. MaxIndicators}
CategoryChoices  == {<<"ML">>, <<"momentum">>, <<"arbitrage">>,
                     <<"statistical">>, <<"other">>}
EntryChoices     == {<<"No", "explicit", "entry", "logic", "described.">>,
                     <<"buy", "when", "RSI", "crosses">>}
ExitChoices      == {<<"No", "explicit", "exit", "logic", "described.">>,
                     <<"sell", "when", "RSI", "crosses">>}
AssetChoices     == {<<"Crypto">>, <<"forex">>, <<"futures">>,
                     <<"equities">>, <<"not", "specified">>}
TimeframeChoices == {<<"Tick">>, <<"1", "minute">>, <<"15", "minutes">>,
                     <<"daily">>}
ConceptChoices   ==
    {KeywordText(k) \o extra :
         k \in 0 .. MaxKeywords,
         extra \in {<<>>, <<"Market", "Making">>, <<"on-chain", "perpetual">>}}

FullSummaries ==
    [indicators   : IndicatorChoices,
     category     : CategoryChoices,
     entry_logic  : EntryChoices,
     exit_logic   : ExitChoices,
     asset_class  : AssetChoices,
     timeframe    : TimeframeChoices,
     core_concept : ConceptChoices]

\* summaries with fields missing
PartialSummaries ==
    {EmptySummaryDict,
     [category |-> <<"ML">>],
     [core_concept |-> <<"sentiment">>, indicators |-> IndicatorList(3)]}

\* the summaries of the candidates handed over as duplicates
DuplicateSummaries ==
    [indicators   : IndicatorChoices,
     category     : CategoryChoices,
     entry_logic  : EntryChoices,
     exit_logic   : {<<"sell", "when", "RSI", "crosses">>},
     asset_class  : AssetChoices,
     timeframe    : {<<"15", "minutes">>},
     core_concept : {<<>>, <<"on-chain", "perpetual">>}]
    \cup PartialSummaries

\* what feasibility_agent.run is handed: analyzed and classified candidates,
\* and candidates no earlier stage has annotated
ScoreInputs ==
    {[repo_name |-> "o/s", dedup_status |-> "novel", strategy_summary |-> x] :
         x \in FullSummaries \cup PartialSummaries}
    \cup {[repo_name |-> "o/s", dedup_status |-> st, strategy_summary |-> x] :
              st \in {"similar", "duplicate"}, x \in DuplicateSummaries}
    \cup {[repo_name |-> "o/s"],
          [repo_name |-> "o/s", dedup_status |-> "duplicate"]}

ScoreInit ==
    /\ DedupInit
    /\ PipeIdle
    /\ feas_in \in {<<repo>> : repo \in ScoreInputs}
    /\ feas_out = <<>>

\* the for loop of feasibility_agent.run reaches the candidate
FeasibilityStep ==
    /\ feas_out = <<>>
    /\ feas_out' = <<ScoreRepo(feas_in[1])>>
    /\ UNCHANGED <<disk_db, pc, repos, idx, db, existing_texts, results,
                   start_db, calls, writes, prev, feas_in>>
    /\ UNCHANGED pipeVars

ScoreNext == FeasibilityStep

SpecScore == ScoreInit /\ [][ScoreNext]_vars

-----------------------------------------------------------------------------
(* orchestrator.py: the registration of strategies.  A name is spelled out *)
(* as the sequence of its characters, so that _slug works on it character  *)
(* by character as the code does; an id is such a sequence.                *)

\* c.isalnum()
IsAlnum(c) ==
    c \in {"a", "b", "c", "d", "e", "f", "g", "h", "i", "j", "k", "l", "m",
           "n", "o", "p", "q", "r", "s", "t", "u", "v", "w", "x", "y", "z",
           "A", "B", "C", "D", "E", "F", "G", "H", "I", "J", "K", "L", "M",
           "N", "O", "P", "Q", "R", "S", "T", "U", "V", "W", "X", "Y", "Z",
           "0", "1", "2", "3", "4", "5", "6", "7", "8", "9"}

\* c.lower()
LowerChar(c) ==
    CASE c = "A" -> "a" [] c = "B" -> "b" [] c = "C" -> "c"
      [] c = "D" -> "d" [] c = "E" -> "e" [] c = "F" -> "f"
      [] c = "G" -> "g" [] c = "H" -> "h" [] c = "I" -> "i"
      [] c = "J" -> "j" [] c = "K" -> "k" [] c = "L" -> "l"
      [] c = "M" -> "m" [] c = "N" -> "n" [] c = "O" -> "o"
      [] c = "P" -> "p" [] c = "Q" -> "q" [] c = "R" -> "r"
      [] c = "S" -> "s" [] c = "T" -> "t" [] c = "U" -> "u"
      [] c = "V" -> "v" [] c = "W" -> "w" [] c = "X" -> "x"
      [] c = "Y" -> "y" [] c = "Z" -> "z"
      [] OTHER -> c

\* str.strip('-') on a sequence of characters
StripHyphens(cs) ==
    LET keep == {i \in DOMAIN cs : cs[i] # "-"}
    IN  IF keep = {} THEN <<>>
        ELSE SubSeq(cs, CHOOSE i \in keep : \A j \in keep : i <= j,
                        CHOOSE i \in keep : \A j \in keep : i >= j)

\* _slug
Slug(name) ==
    StripHyphens([i \in DOMAIN Chars(name) |->
                      IF IsAlnum(Chars(name)[i])
                      THEN LowerChar(Chars(name)[i]) ELSE "-"])

\* line 54: the first of strategy_name, repo_name and name that is not
\* empty, or "Unnamed Strategy"
NameOf(r) ==
    IF Get(r, "strategy_name", "") # "" THEN r.strategy_name
    ELSE IF Get(r, "repo_name", "") # "" THEN r.repo_name
    ELSE IF Get(r, "name", "") # "" THEN r.name
    ELSE "Unnamed Strategy"

\* lines 58-65: the entry of candidate r, registered at time now
NewEntry(r, now) ==
    LET summary == Get(r, "summary", EmptyDict)
    IN  [id           |-> Slug(NameOf(r)),
         name         |-> NameOf(r),
         status       |-> "forward-test",
         strategy_tag |->
             IF Get(summary, "strategy_tag", "") # ""
             THEN summary.strategy_tag
             ELSE IF Get(summary, "category", "") # ""
                  THEN summary.category ELSE "strategy",
         summary      |->
             IF Get(summary, "overview", "") # "" THEN summary.overview
             ELSE Get(summary, "one_liner", ""),
         created_at   |-> now]

\* a.get("id") of an entry without id
NoId == <<"None">>

\* variant: every pursued candidate is appended, whatever ids are present
IsRegisteredAnyId(active, r) ==
    /\ Get(r, "dedup_status", "") # "duplicate"
    /\ Get(Get(r, "feasibility", EmptyDict), "recommendation", "") = "pursue"

\* lines 50-57: whether candidate r is appended to the list active
IsRegistered(active, r) ==
    /\ Get(r, "dedup_status", "") # "duplicate"
    /\ Get(Get(r, "feasibility", EmptyDict), "recommendation", "") = "pursue"
    /\ Slug(NameOf(r)) \notin {Get(active[i], "id", NoId) : i \in DOMAIN active}

\* lines 49-68: the list after the candidates rs, in order
RECURSIVE RegisterEach(_, _, _)
RegisterEach(active, rs, now) ==
    IF rs = <<>> THEN active
    ELSE RegisterEach(IF IsRegistered(active, Head(rs))
                      THEN Append(active, NewEntry(Head(rs), now))
                      ELSE active,
                      Tail(rs), now)

\* lines 38-44: the stored list, [] when the file is missing or json.loads
\* raises
ReadActive ==
    IF active_disk = <<>> THEN <<>>
    ELSE IF active_disk[1] = NotJson THEN <<>>
    ELSE active_disk[1]

\* _auto_register_strategies: the file is rewritten with the whole list
AutoRegisterStrategies(rs) ==
    /\ active_disk' = <<RegisterEach(ReadActive, rs, clock)>>
    /\ clock' = clock + 1

-----------------------------------------------------------------------------
(* agents/reporter_agent.py: the selection of the digest.                  *)

TOP_N == 5

FRAMEWORK_KEYWORDS ==
    << <<"framework">>, <<"library">>, <<"sdk">>, <<"engine">>,
       <<"platform">>, <<"toolkit">>, <<"backtesting">>, <<"backtest">>,
       <<"data", "pipeline">>, <<"infrastructure">> >>

\* the text _is_framework and _score search: " ".join puts a single space
\* between the three strings whatever they hold, so a string without words
\* leaves nothing between its two spaces, here the empty word
Hay(r) ==
    LET Part(str) == IF str = <<>> THEN <<"">> ELSE str
    IN  Lower(<<Get(r, "repo_name", "")>>
              \o Part(Get(r, "description", <<>>))
              \o Part(Get(Get(r, "strategy_summary", EmptySummaryDict),
                          "core_concept", <<>>)))

\* _is_framework
IsFramework(r) ==
    \E i \in DOMAIN FRAMEWORK_KEYWORDS :
        Contains(Hay(r), FRAMEWORK_KEYWORDS[i])

\* tier_rank.get(tier, 0)
TierRank(tier) ==
    CASE tier = "Tier 1" -> 3 [] tier = "Tier 2" -> 2 [] tier = "Tier 3" -> 1
      [] OTHER -> 0

\* feas + 0.2 in binary floating point, for feas a number of hundredths
\* from 0.00 to 10.00: the scores where the sum is the double next above
\* the double of the exact sum, and those where it is the double next
\* below
BoostInexact ==
    [above |->
         {1, 4, 9, 10, 21, 22, 23, 27, 28, 37, 38, 39, 40, 62, 63, 64, 65,
          66, 67, 68, 93, 181, 183, 185, 187, 206, 208, 210, 212, 214, 216,
          218, 220, 222, 224, 231, 233, 235, 237, 239, 241, 243, 245, 247,
          249, 256, 258, 260, 262, 264, 266, 268, 270, 272, 274, 281, 283,
          285, 287, 289, 291, 293, 295, 297, 299, 306, 308, 310, 312, 314,
          316, 318, 320, 322, 324, 331, 333, 335, 337, 339, 341, 343, 345,
          347, 349, 356, 358, 360, 362, 364, 366, 368, 370, 372, 374, 407,
          411, 415, 419, 423, 432, 436, 440, 444, 448, 457, 461, 465, 469,
          473, 482, 486, 490, 494, 498, 507, 511, 515, 519, 523, 532, 536,
          540, 544, 548, 557, 561, 565, 569, 573, 582, 586, 590, 594, 598,
          607, 611, 615, 619, 623, 632, 636, 640, 644, 648, 657, 661, 665,
          669, 673, 682, 686, 690, 694, 698, 707, 711, 715, 719, 723, 732,
          736, 740, 744, 748, 757, 761, 765, 769, 773},
     below |->
         {47, 48, 69, 70, 71, 72, 73, 113, 114, 115, 116, 117, 138, 139,
          140, 141, 142, 163, 164, 165, 166, 167, 785, 793, 801, 802, 803,
          804, 810, 811, 812, 818, 819, 820, 826, 827, 828, 829, 835, 836,
          837, 843, 844, 845, 851, 852, 853, 854, 860, 861, 862, 868, 869,
          870, 876, 877, 878, 879, 885, 886, 887, 893, 894, 895, 901, 902,
          903, 904, 910, 911, 912, 918, 919, 920, 926, 927, 928, 929, 935,
          936, 937, 943, 944, 945, 951, 952, 953, 954, 960, 961, 962, 968,
          969, 970, 976, 977, 978, 979, 985, 986, 987, 993, 994, 995}]

\* _score: tier rank, overall score with the 0.2 boost, quality.  The
\* score is counted in thirds of a hundredth, so that a sum one double
\* above or below a number of hundredths lies between it and its
\* neighbours.
SortKey(r) ==
    LET feas == Get(Get(r, "feasibility", EmptyDict), "overall_score", 0)
    IN  <<TierRank(Get(Get(r, "strategy_summary", EmptySummaryDict),
                       "tier", "Unclear")),
          IF Contains(Hay(r), <<"hyperliquid">>)
          THEN 3 * (feas + 20)
                   + (IF feas \in BoostInexact.above THEN 1
                      ELSE IF feas \in BoostInexact.below THEN -1 ELSE 0)
          ELSE 3 * feas,
          Get(r, "quality_score", 0)>>

\* tuple comparison: a < b
KeyLess(a, b) ==
    \/ a[1] < b[1]
    \/ a[1] = b[1] /\ a[2] < b[2]
    \/ a[1] = b[1] /\ a[2] = b[2] /\ a[3] < b[3]

\* r placed behind every element whose key is not below its own
InsertDescending(sorted, r) ==
    LET before == {i \in DOMAIN sorted :
                       KeyLess(SortKey(sorted[i]), SortKey(r))}
        at == IF before = {} THEN Len(sorted) + 1
              ELSE CHOOSE i \in before : \A j \in before : i <= j
    IN  SubSeq(sorted, 1, at - 1) \o <<r>> \o SubSeq(sorted, at, Len(sorted))

\* list.sort(key=_score, reverse=True), which keeps equal keys in order
RECURSIVE SortDescending(_)
SortDescending(rs) ==
    IF rs = <<>> THEN <<>>
    ELSE InsertDescending(SortDescending(SubSeq(rs, 1, Len(rs) - 1)),
                          rs[Len(rs)])

\* lines 183-186 and 210: the candidates the digest may show
IsEligible(r) ==
    /\ Get(r, "dedup_status", "") # "duplicate"
    /\ ~IsFramework(r)
    /\ Get(Get(r, "strategy_summary", EmptySummaryDict), "tier", "") # "Unclear"

\* lines 183-212
SelectTop(rs) ==
    LET sorted == SortDescending(SelectSeq(rs, IsEligible))
    IN  SubSeq(sorted, 1, Min2(TOP_N, Len(sorted)))

\* _format_report: what the digest says
Digest(rs) ==
    [scanned |-> Len(rs),
     novel   |-> Cardinality({i \in DOMAIN rs :
                                  Get(rs[i], "dedup_status", "") # "duplicate"}),
     top     |-> SelectTop(rs)]

-----------------------------------------------------------------------------
(* orchestrator.run as a state machine: one step per stage, with the steps *)
(* of dedup_agent.run above for the novelty stage.  The lists a stage is   *)
(* handed hold the candidate dicts themselves, so what a stage has set on  *)
(* a candidate before it raises stays set.                                 *)

\* discovery returns at most MaxBatch candidates
MaxBatch == 2

\* scout records: two whose text is a stop word only, and one with terms
\* as _normalize returns them
FoundStop    == [repo_url |-> "https://github.com/o/stop",
                 repo_name |-> "o/stop", description |-> <<"The">>,
                 stars |-> 42, language |-> "Python",
                 created_at |-> "2026-10-30T00:00:00Z", topics |-> <<>>]
FoundStopToo == [repo_url |-> "https://github.com/p/stop",
                 repo_name |-> "p/stop", description |-> <<"The">>,
                 stars |-> 42, language |-> "Python",
                 created_at |-> "2026-10-30T00:00:00Z", topics |-> <<>>]
FoundGrid    == [repo_url |-> "https://github.com/a/b-c",
                 repo_name |-> "a/b-c", description |-> <<"rsi", "grid">>,
                 stars |-> 42, language |-> "Python",
                 created_at |-> "2026-10-30T00:00:00Z",
                 topics |-> << <<"trend">> >>]

\* scout_agent.run keeps one record per repository (seen_urls)
FoundBatches ==
    {b \in UNION {[1 .. n -> {FoundStop, FoundStopToo, FoundGrid}] :
                      n \in 0 .. MaxBatch} :
         \A i, j \in DOMAIN b : i # j => b[i] # b[j]}

\* the summary _summarize_strategy returns for the README "On-chain
\* perpetual momentum SMA bot.", "Buy when price crosses. Sell when price
\* crosses.", "Runs on 15 minute bars." (three paragraphs) and no files
SummaryMomentum ==
    [core_concept |-> <<"On-chain", "perpetual", "momentum", "SMA", "bot.">>,
     entry_logic  |-> <<"Buy", "when", "price", "crosses.">>,
     exit_logic   |-> <<"Sell", "when", "price", "crosses.">>,
     indicators   |-> << <<"SMA">> >>,
     timeframe    |-> <<"15", "minute">>,
     asset_class  |-> <<"crypto">>,
     category     |-> <<"momentum">>,
     excluded     |-> FALSE,
     exclude_reason |-> <<>>,
     hyperliquid_compatible |-> TRUE,
     exchange_compatibility |-> << <<"hyperliquid">> >>]

\* the summary _summarize_strategy returns for no README and no files,
\* which is what the fetches return when they fail
SummaryDefault ==
    [core_concept |-> <<"Strategy", "concept", "not", "clearly",
                        "described", "in", "README.">>,
     entry_logic  |-> <<"No", "explicit", "entry", "logic", "described.">>,
     exit_logic   |-> <<"No", "explicit", "exit", "logic", "described.">>,
     indicators   |-> <<>>,
     timeframe    |-> <<"not", "specified">>,
     asset_class  |-> <<"not", "specified">>,
     category     |-> <<"other">>,
     excluded     |-> FALSE,
     exclude_reason |-> <<>>,
     hyperliquid_compatible |-> FALSE,
     exchange_compatibility |-> <<>>]

\* what the analyst's loop does with one candidate: <<the summary>> it sets,
\* or <<>> when the per-item try catches an exception (the sizes of the
\* tree listing do not compare in _pick_core_files) and the candidate is
\* logged and left out.  A fetch that fails is no exception here: it
\* returns no text and the candidate gets the default summary.
ItemOutcomes == {<<SummaryMomentum>>, <<SummaryDefault>>, <<>>}

\* one line of the history
Entry(name, outcome, handed, left) ==
    [stage |-> name, outcome |-> outcome, handed |-> handed, left |-> left]

\* variants: no except clause catches; discovery's except clause goes on
OnRaisePropagate(name) == "propagate"
OnRaiseContinue(name) == "continue"

\* the except clause of each try of run(): line 123 returns, the others fall
\* through to the next stage
OnRaise(name) == IF name = "scout" THEN "abort" ELSE "continue"

\* the position of run() after the stage name has raised
AfterRaise(name, next) ==
    CASE OnRaise(name) = "abort" -> "aborted"
      [] OnRaise(name) = "continue" -> next
      [] OTHER -> "crashed"

\* the elements of seq at the indices in keep, in order
RECURSIVE Pick(_, _)
Pick(seq, keep) ==
    IF seq = <<>> THEN <<>>
    ELSE Pick(SubSeq(seq, 1, Len(seq) - 1), keep)
         \o (IF Len(seq) \in keep THEN <<seq[Len(seq)]>> ELSE <<>>)

\* earlier runs left a registered strategy and, from a day when enrichment
\* had failed, a corpus entry without a summary
EarlierEntry ==
    [id |-> <<"a", "-", "b", "-", "c">>, name |-> "a/b-c",
     status |-> "forward-test", strategy_tag |-> "strategy", summary |-> "",
     created_at |-> 0]

EarlierCorpusEntry ==
    SetKey(SetKey(FoundGrid, "max_similarity", 0), "dedup_status", "novel")

\* the corpus file and the active-tracking list when run() starts: both
\* missing, both as earlier runs left them, or both unparseable
StartFiles ==
    << [corpus |-> <<>>, active |-> <<>>],
       [corpus |-> <<EarlierCorpusEntry>>, active |-> << <<EarlierEntry>> >>],
       [corpus |-> NotJson, active |-> <<NotJson>>] >>

PipeInit ==
    /\ \E k \in DOMAIN StartFiles :
           /\ disk_db = StartFiles[k].corpus
           /\ active_disk = StartFiles[k].active
    /\ pc = "idle"
    /\ repos = <<>>
    /\ idx = 1
    /\ db = <<>>
    /\ existing_texts = <<>>
    /\ results = <<>>
    /\ start_db = <<>>
    /\ calls = <<>>
    /\ writes = 0
    /\ prev = <<>>
    /\ feas_in = <<>>
    /\ feas_out = <<>>
    /\ stage = "start"
    /\ collection = <<>>
    /\ trace = <<>>
    /\ scan_disk = <<>>
    /\ report_disk = <<>>
    /\ full_disk = <<>>
    /\ clock = IF active_disk = <<>> THEN 0 ELSE 1

dedupLocals == <<pc, repos, idx, db, existing_texts, results, start_db, calls,
                 writes, prev>>

\* Stage 1, lines 117-132: scout_agent.run writes the scan file and returns
\* the records, or raises: before it writes, or while json.dump writes to
\* the file open(output_path, "w") has emptied, which leaves a piece of a
\* document
RunScout ==
    /\ stage = "start"
    /\ \/ \E found \in FoundBatches :
             /\ Len(disk_db) + Len(found) <= MaxDocs
             /\ scan_disk' = <<found>>
             /\ collection' = found
             /\ trace' = Append(trace, Entry("scout", "returned", <<>>, found))
             /\ stage' = IF found = <<>> THEN "empty" ELSE "analyst"
       \/ /\ scan_disk' \in {scan_disk, <<NotJson>>}
          /\ UNCHANGED collection
          /\ trace' = Append(trace, Entry("scout", "raised", <<>>, <<>>))
          /\ stage' = AfterRaise("scout", "empty")
    /\ UNCHANGED <<disk_db, dedupLocals, feas_in, feas_out, report_disk,
                   active_disk, full_disk, clock>>

\* a file that holds only the beginning of the text that was being written
CutShort == [cut_short |-> TRUE]

\* reporter_agent.run: the digest is written, and the run raises before
\* the file is touched, or while write_text writes to the file it has
\* emptied, or after the digest is written (the notification fails), or
\* returns
ReporterRun(rs, name) ==
    \E outcome \in {"returned", "raised"},
       file \in {"untouched", "cut short", "whole"} :
        /\ outcome = "returned" => file = "whole"
        /\ report_disk' = CASE file = "untouched" -> report_disk
                            [] file = "cut short" -> <<CutShort>>
                            [] OTHER -> <<Digest(rs)>>
        /\ trace' = Append(trace, Entry(name, outcome, rs, rs))

\* lines 125-132: nothing was found, an empty report is made and run()
\* returns
RunReporterEmpty ==
    /\ stage = "empty"
    /\ ReporterRun(<<>>, "reporter")
    /\ stage' = IF trace'[Len(trace')].outcome = "raised"
                THEN AfterRaise("reporter", "complete") ELSE "complete"
    /\ UNCHANGED <<disk_db, dedupLocals, feas_in, feas_out, collection,
                   scan_disk, active_disk, full_disk, clock>>

\* variant: the loop of a stage may raise at any candidate
AnalystRaiseSitesAnywhere(rs) == 0 .. Len(rs) - 1

\* where analyst_agent.run raises, as the number of candidates its loop has
\* finished: none (the call fails as a whole, before the loop), or those
\* before the first candidate without repo_name, which lines 342-343 read
\* outside the per-item try
AnalystRaiseSites(rs) ==
    {0} \cup {k \in 0 .. Len(rs) - 1 :
                 /\ "repo_name" \notin DOMAIN rs[k + 1]
                 /\ \A i \in 1 .. k : "repo_name" \in DOMAIN rs[i]}

\* Stage 2, lines 136-142, with analyst_agent.run: the loop goes through the
\* first stop candidates, and an exception that leaves run() leaves it with
\* the list it passed
RunAnalyst ==
    /\ stage = "analyst"
    /\ \E stop \in 0 .. Len(collection),
          outcomes \in [DOMAIN collection -> ItemOutcomes] :
          /\ \A i \in DOMAIN collection : i > stop => outcomes[i] = <<>>
          /\ IF stop = Len(collection)
             THEN \A i \in DOMAIN collection :
                      "repo_name" \in DOMAIN collection[i]
             ELSE stop \in AnalystRaiseSites(collection)
          /\ LET left == [i \in DOMAIN collection |->
                              IF outcomes[i] # <<>>
                              THEN SetKey(collection[i], "strategy_summary",
                                          outcomes[i][1])
                              ELSE collection[i]]
                 analyzed == Pick(left, {i \in DOMAIN collection :
                                             outcomes[i] # <<>>})
             IN  IF stop = Len(collection)
                 THEN /\ collection' = analyzed
                      /\ trace' = Append(trace, Entry("analyst", "returned",
                                                      collection, left))
                      /\ stage' = "dedup"
                 ELSE /\ collection' = left
                      /\ trace' = Append(trace, Entry("analyst", "raised",
                                                      collection, left))
                      /\ stage' = AfterRaise("analyst", "dedup")
    /\ UNCHANGED <<disk_db, dedupLocals, feas_in, feas_out, scan_disk,
                   report_disk, active_disk, full_disk, clock>>

\* Stage 3, line 147: dedup_agent.run is entered
DedupStage ==
    /\ stage = "dedup"
    /\ StartRun(collection)

\* dedup_agent.run raises where the engine does not.  Inside the loop the
\* corpus file is as it was.  After the loop _save_db raises: either before
\* the file is touched (mkdir or open fails), or after open(DB_PATH, "w")
\* has emptied it, while json.dump writes, which leaves a piece of a
\* document that json cannot parse.
DedupFault ==
    /\ stage = "dedup"
    /\ pc = "loop"
    /\ pc' = "failed"
    /\ IF idx <= Len(repos)
       THEN UNCHANGED <<disk_db, writes>>
       ELSE /\ disk_db' \in {disk_db, NotJson}
            /\ writes' = writes + 1
    /\ UNCHANGED <<repos, idx, db, existing_texts, results, start_db,
                   calls, prev, feas_in, feas_out>>
    /\ UNCHANGED pipeVars

\* run()'s locals are gone
ForgetDedup ==
    /\ pc' = "idle"
    /\ repos' = <<>>
    /\ idx' = 1
    /\ db' = <<>>
    /\ existing_texts' = <<>>
    /\ results' = <<>>
    /\ start_db' = <<>>
    /\ calls' = <<>>
    /\ writes' = 0
    /\ prev' = <<>>

\* lines 147-149: dedup_agent.run has returned its results
DedupReturned ==
    /\ stage = "dedup"
    /\ pc = "done"
    /\ collection' = results
    /\ trace' = Append(trace, Entry("dedup", "returned", collection, repos))
    /\ stage' = "feasibility"
    /\ ForgetDedup
    /\ UNCHANGED <<disk_db, feas_in, feas_out, scan_disk, report_disk,
                   active_disk, full_disk, clock>>

\* variant: the list is passed on as the failed run left it
MarkAllNovelNot(rs) == rs

\* lines 153-155
MarkAllNovel(rs) ==
    [i \in DOMAIN rs |->
         SetKey(SetKey(rs[i], "dedup_status", "novel"), "max_similarity", 0)]

\* lines 150-156: dedup_agent.run has raised
DedupRaised ==
    /\ stage = "dedup"
    /\ pc = "failed"
    /\ collection' = MarkAllNovel(repos)
    /\ trace' = Append(trace, Entry("dedup", "raised", collection, repos))
    /\ stage' = AfterRaise("dedup", "feasibility")
    /\ ForgetDedup
    /\ UNCHANGED <<disk_db, feas_in, feas_out, scan_disk, report_disk,
                   active_disk, full_disk, clock>>

\* variant: the loop of the scorer may raise at any candidate
FeasibilityRaiseSitesAnywhere(rs) == 0 .. Len(rs) - 1

\* where feasibility_agent.run raises, as the number of candidates its loop
\* has finished: none (the call fails as a whole, before the loop), or those
\* before the first candidate without repo_name, which the logger lines 231
\* and 244 read
FeasibilityRaiseSites(rs) ==
    {0} \cup {k \in 0 .. Len(rs) - 1 :
                 /\ "repo_name" \notin DOMAIN rs[k + 1]
                 /\ \A i \in 1 .. k : "repo_name" \in DOMAIN rs[i]}

\* Stage 4, lines 160-169, with feasibility_agent.run: the loop scores the
\* first stop candidates, and an exception leaves run() with the list it
\* passed.  An exception at a candidate comes from line 231, before a
\* duplicate gets its result, or from line 244, after line 241 has set the
\* result of any other candidate; before the loop nothing is set.
RunFeasibility ==
    /\ stage = "feasibility"
    /\ \E stop \in 0 .. Len(collection), set \in BOOLEAN :
          /\ IF stop = Len(collection)
             THEN /\ ~set
                  /\ \A i \in DOMAIN collection :
                         "repo_name" \in DOMAIN collection[i]
             ELSE /\ stop \in FeasibilityRaiseSites(collection)
                  /\ set => /\ Get(collection[stop + 1], "dedup_status",
                                    "novel") # "duplicate"
                            /\ \/ stop > 0
                               \/ "repo_name"
                                      \notin DOMAIN collection[stop + 1]
                  /\ ~set => \/ stop = 0
                             \/ Get(collection[stop + 1], "dedup_status",
                                    "novel") = "duplicate"
          /\ LET left == [i \in DOMAIN collection |->
                              IF i <= stop \/ (i = stop + 1 /\ set)
                              THEN ScoreRepo(collection[i])
                              ELSE collection[i]]
             IN  /\ collection' = left
                 /\ IF stop = Len(collection)
                    THEN /\ trace' = Append(trace,
                                            Entry("feasibility", "returned",
                                                  collection, left))
                         /\ stage' = "reporter"
                    ELSE /\ trace' = Append(trace,
                                            Entry("feasibility", "raised",
                                                  collection, left))
                         /\ stage' = AfterRaise("feasibility", "reporter")
    /\ UNCHANGED <<disk_db, dedupLocals, feas_in, feas_out, scan_disk,
                   report_disk, active_disk, full_disk, clock>>

\* Stage 5, lines 173-177
RunReporter ==
    /\ stage = "reporter"
    /\ ReporterRun(collection, "reporter")
    /\ stage' = IF trace'[Len(trace')].outcome = "raised"
                THEN AfterRaise("reporter", "register") ELSE "register"
    /\ UNCHANGED <<disk_db, dedupLocals, feas_in, feas_out, collection,
                   scan_disk, active_disk, full_disk, clock>>

\* lines 180-185: _auto_register_strategies returns, or raises: before the
\* file is touched, or while write_text writes to the file it has emptied
RunRegister ==
    /\ stage = "register"
    /\ \/ /\ AutoRegisterStrategies(collection)
          /\ trace' = Append(trace, Entry("register", "returned",
                                          collection, collection))
          /\ stage' = "save"
       \/ /\ active_disk' \in {active_disk, <<NotJson>>}
          /\ UNCHANGED clock
          /\ trace' = Append(trace, Entry("register", "raised",
                                          collection, collection))
          /\ stage' = AfterRaise("register", "save")
    /\ UNCHANGED <<disk_db, dedupLocals, feas_in, feas_out, collection,
                   scan_disk, report_disk, full_disk>>

\* lines 188-194: the whole list is written to {date}_full.json, or open
\* raises, or json.dump raises and leaves a piece of a document
SaveFull ==
    /\ stage = "save"
    /\ \/ /\ full_disk' = <<collection>>
          /\ trace' = Append(trace, Entry("save", "returned",
                                          collection, collection))
       \/ /\ full_disk' \in {full_disk, <<NotJson>>}
          /\ trace' = Append(trace, Entry("save", "raised",
                                          collection, collection))
    /\ stage' = "complete"
    /\ UNCHANGED <<disk_db, dedupLocals, feas_in, feas_out, collection,
                   scan_disk, report_disk, active_disk, clock>>

PipeNext ==
    \/ RunScout
    \/ RunReporterEmpty
    \/ RunAnalyst
    \/ DedupStage
    \/ ProcessCandidate
    \/ FinishRun
    \/ DedupFault
    \/ DedupReturned
    \/ DedupRaised
    \/ RunFeasibility
    \/ RunReporter
    \/ RunRegister
    \/ SaveFull

SpecPipeline == PipeInit /\ [][PipeNext]_vars

\* every step of run() but the classification of a candidate
StageStep ==
    \/ RunScout
    \/ RunReporterEmpty
    \/ RunAnalyst
    \/ DedupStage
    \/ FinishRun
    \/ DedupFault
    \/ DedupReturned
    \/ DedupRaised
    \/ RunFeasibility
    \/ RunReporter
    \/ RunRegister
    \/ SaveFull

\* the for loop of dedup_agent.run goes on to its next candidate, or raises
LoopAdvance ==
    /\ pc = "loop"
    /\ idx <= Len(repos)
    /\ \/ idx' = idx + 1 /\ pc' = pc
       \/ idx' = idx /\ pc' = "failed"

\* run() is one thread of control that nothing suspends: a stage that can
\* take its step takes it, and the loop over the candidates goes on
FairPipeline ==
    SpecPipeline /\ WF_vars(StageStep) /\ WF_<<idx, pc>>(LoopAdvance)

-----------------------------------------------------------------------------
(* _auto_register_strategies on its own: a stored list and a scored batch  *)
(* are drawn, and the registration is applied to them again and again.     *)

\* a batch holds up to MaxRegister candidates
MaxRegister == 3
\* the registration is applied up to MaxApplications times
MaxApplications == 2

\* a candidate as the stages before registration leave it
Scored(name, status, outcome) ==
    ScoreRepo(LET r == [repo_name |-> name, dedup_status |-> status]
              IN  IF outcome = <<>> THEN r
                  ELSE SetKey(r, "strategy_summary", outcome[1]))

\* pursued candidates whose names give the same slug, one that is only
\* similar, names that start or end with other characters, an empty name, a
\* strategy_name that goes before the repo_name, a monitored candidate, a
\* duplicate, a duplicate that carries a pursue result, and a candidate that
\* was never scored
RegisterPool ==
    {Scored("a/b-c", "novel", <<SummaryMomentum>>),
     Scored("a-b/c", "novel", <<SummaryMomentum>>),
     Scored("A/B_C", "similar", <<SummaryMomentum>>),
     Scored("_grid 2!", "novel", <<SummaryMomentum>>),
     Scored("", "novel", <<SummaryMomentum>>),
     SetKey(Scored("a/b-c", "novel", <<SummaryMomentum>>),
            "strategy_name", "_grid 2!"),
     Scored("o/stop", "novel", <<>>),
     Scored("p/stop", "duplicate", <<SummaryMomentum>>),
     SetKey(Scored("p/stop", "novel", <<SummaryMomentum>>),
            "dedup_status", "duplicate"),
     [repo_name |-> "p/stop", dedup_status |-> "novel"]}

RegisterBatches == UNION {[1 .. n -> RegisterPool] : n \in 0 .. MaxRegister}

\* the entry an earlier run appended for a candidate without a name
EarlierUnnamed == NewEntry([dedup_status |-> "novel"], 0)

\* the file is missing, or holds what earlier runs wrote
StoredLists ==
    {<<>>, << <<EarlierEntry>> >>, << <<EarlierEntry, EarlierUnnamed>> >>}

RegisterInit ==
    /\ DedupInit
    /\ feas_in = <<>>
    /\ feas_out = <<>>
    /\ stage = "registry"
    /\ collection \in RegisterBatches
    /\ trace = <<>>
    /\ scan_disk = <<>>
    /\ report_disk = <<>>
    /\ full_disk = <<>>
    /\ active_disk \in StoredLists
    /\ clock = IF active_disk = <<>> THEN 0 ELSE 1

\* _auto_register_strategies(repos) is called and returns
Register ==
    /\ stage = "registry"
    /\ Len(trace) < MaxApplications
    /\ AutoRegisterStrategies(collection)
    /\ trace' = Append(trace, Entry("register", "returned",
                                    collection, collection))
    /\ UNCHANGED <<disk_db, dedupLocals, feas_in, feas_out, stage, collection,
                   scan_disk, report_disk, full_disk>>

RegisterNext == Register

SpecRegister == RegisterInit /\ [][RegisterNext]_vars

-----------------------------------------------------------------------------
(* reporter_agent.run on its own: a scored list is drawn and the reporter  *)
(* is called on it.                                                        *)

\* a list handed to the reporter holds up to MaxReport candidates
MaxReport == 4

\* a scored candidate: description, status, <<tier>> or <<>> for a summary
\* without one, overall score in hundredths (-1: no feasibility result) and
\* quality_score
Reported(name, description, status, tier, overall, quality) ==
    LET summary == IF tier = <<>> THEN [category |-> <<"momentum">>]
                   ELSE [category |-> <<"momentum">>, tier |-> tier[1]]
        r == [repo_name |-> name, description |-> description,
              dedup_status |-> status, strategy_summary |-> summary,
              quality_score |-> quality]
    IN  IF overall < 0 THEN r
        ELSE SetKey(r, "feasibility",
                    [overall_score |-> overall,
                     recommendation |-> Recommendation(overall)])

\* the last candidate has no description, and its name and core concept
\* give "data  pipeline of price data", two spaces after the name
ReportPool ==
    << Reported("o/r1", <<"rsi", "grid">>, "novel", <<"Tier 1">>, 700, 0),
       Reported("o/r2", <<"hyperliquid", "grid">>, "similar", <<"Tier 1">>,
                690, 0),
       Reported("o/r3", <<"macd">>, "novel", <<"Tier 2">>, 780, 0),
       Reported("o/r4", <<"trend">>, "novel", <<"Tier 2">>, 780, 3),
       Reported("o/r5", <<"ema">>, "novel", <<>>, 585, 0),
       Reported("o/r6", <<"sma">>, "novel", <<"Tier 1">>, -1, 0),
       Reported("o/r7", <<"rsi", "grid">>, "duplicate", <<"Tier 1">>, 0, 9),
       Reported("o/r8", <<"atr">>, "novel", <<"Unclear">>, 780, 9),
       Reported("o/r9", <<"backtesting", "engine">>, "novel", <<"Tier 1">>,
                780, 9),
       Reported("o/r10", <<"rsi", "trend">>, "novel", <<"Tier 1">>, 710, 5),
       LET r == Reported("data", <<>>, "novel", <<"Tier 1">>, 700, 1)
       IN  SetKey(r, "strategy_summary",
                  SetKey(r.strategy_summary, "core_concept",
                         <<"pipeline", "of", "price", "data">>)) >>

\* the lists of up to MaxReport different candidates, and the whole pool
ReportInputs ==
    {[i \in DOMAIN picks |-> ReportPool[picks[i]]] :
         picks \in {p \in UNION {[1 .. n -> DOMAIN ReportPool] :
                                     n \in 0 .. MaxReport} :
                        \A i, j \in DOMAIN p : i # j => p[i] # p[j]}}
    \cup {ReportPool}

ReportInit ==
    /\ DedupInit
    /\ feas_in = <<>>
    /\ feas_out = <<>>
    /\ stage = "report"
    /\ collection \in ReportInputs
    /\ trace = <<>>
    /\ scan_disk = <<>>
    /\ report_disk = <<>>
    /\ active_disk = <<>>
    /\ full_disk = <<>>
    /\ clock = 0

\* reporter_agent.run(repos) is called
Report ==
    /\ stage = "report"
    /\ trace = <<>>
    /\ ReporterRun(collection, "reporter")
    /\ UNCHANGED <<disk_db, dedupLocals, feas_in, feas_out, stage, collection,
                   scan_disk, active_disk, full_disk, clock>>

ReportNext == Report

SpecReport == ReportInit /\ [][ReportNext]_vars

-----------------------------------------------------------------------------
(* Properties of the scorer.                                               *)

ScoreNames == {"implementation_complexity", "capital_efficiency",
               "edge_durability", "platform_compatibility",
               "data_requirements"}

\* C10: for every Strategy Summary each of the five sub-scores is an integer
\* in [1,10], whatever the adjustments add up to.
SubScoresWithinOneToTen ==
    \A i \in DOMAIN feas_out :
        Get(feas_in[i], "dedup_status", "novel") # "duplicate" =>
            LET scores == feas_out[i].feasibility.scores
            IN  /\ DOMAIN scores = ScoreNames
                /\ \A k \in ScoreNames : scores[k] \in 1 .. 10

\* a summary with every data keyword, seven indicators, category ML and no
\* explicit entry or exit logic has been scored: three sub-scores are at 1
EveryPenaltyAtOnceScored ==
    \E i \in DOMAIN feas_out :
        LET x == Get(feas_in[i], "strategy_summary", EmptySummaryDict)
            scores == feas_out[i].feasibility.scores
        IN  /\ DOMAIN x = DOMAIN [f \in {"indicators", "category",
                                         "entry_logic", "exit_logic",
                                         "asset_class", "timeframe",
                                         "core_concept"} |-> 0]
            /\ x.indicators = IndicatorList(7)
            /\ x.category = <<"ML">>
            /\ x.core_concept = KeywordText(8) \o <<"Market", "Making">>
            /\ Contains(Lower(x.entry_logic), <<"no", "explicit">>)
            /\ Contains(Lower(x.exit_logic), <<"no", "explicit">>)
            /\ scores.implementation_complexity = 1
            /\ scores.data_requirements = 1

\* the scored candidates that were not handed over as duplicates
Computed == {i \in DOMAIN feas_out :
                 Get(feas_in[i], "dedup_status", "novel") # "duplicate"}

\* C11: the overall score of _compute_feasibility is 0.20 * implementation
\* complexity + 0.25 * capital efficiency + 0.25 * edge durability + 0.15 *
\* platform compatibility + 0.15 * data requirements to two decimals (here in
\* hundredths); the weights add up to exactly 1; the overall score lies in
\* [1, 10]; and scoring the same summary again gives the same overall score.
OverallIsWeightedSum ==
    /\ Sum(WEIGHTS, DOMAIN WEIGHTS) = 100
    /\ \A i \in Computed :
           LET f == feas_out[i].feasibility
               x == Get(feas_in[i], "strategy_summary", EmptySummaryDict)
           IN  /\ f.overall_score =
                      20 * f.scores.implementation_complexity
                      + 25 * f.scores.capital_efficiency
                      + 25 * f.scores.edge_durability
                      + 15 * f.scores.platform_compatibility
                      + 15 * f.scores.data_requirements
               /\ f.overall_score \in 100 .. 1000
               /\ f.overall_score = ComputeFeasibility(x).overall_score

\* a summary whose five sub-scores differ from one another has been scored
\* to an overall score that is not a whole number
UnevenSubScoresScored ==
    \E i \in Computed :
        LET f == feas_out[i].feasibility
        IN  /\ Cardinality({f.scores[k] : k \in ScoreNames}) >= 4
            /\ f.overall_score % 100 # 0

\* C12: a scored candidate is recommended pursue exactly when its overall
\* score is at least 7.0, monitor exactly when it is at least 4.5 and below
\* 7.0, and skip exactly when it is below 4.5; 7.00 gives pursue, 6.99
\* monitor, 4.50 monitor and 4.49 skip.
RecommendationFollowsThresholds ==
    /\ \A i \in Computed :
           LET f == feas_out[i].feasibility
           IN  /\ f.recommendation \in {"pursue", "monitor", "skip"}
               /\ f.recommendation = "pursue" <=> f.overall_score >= 700
               /\ f.recommendation = "monitor" <=>
                      (450 <= f.overall_score /\ f.overall_score < 700)
               /\ f.recommendation = "skip" <=> f.overall_score < 450
    /\ Recommendation(700) = "pursue"
    /\ Recommendation(699) = "monitor"
    /\ Recommendation(450) = "monitor"
    /\ Recommendation(449) = "skip"

\* a summary has been scored to exactly 7.00 and recommended pursue
ScoredExactlySeven ==
    \E i \in Computed :
        /\ feas_out[i].feasibility.overall_score = 700
        /\ feas_out[i].feasibility.recommendation = "pursue"

\* C13: a candidate whose dedup_status is duplicate gets, whatever its
\* summary, the sentinel result (no sub-scores, overall score 0, skip
\* (duplicate)); a candidate with any other dedup_status, or with none, gets
\* the result computed from its summary.
DuplicateGetsSentinel ==
    \A i \in DOMAIN feas_out :
        LET f == feas_out[i].feasibility
            x == Get(feas_in[i], "strategy_summary", EmptySummaryDict)
        IN  IF "dedup_status" \in DOMAIN feas_in[i]
               /\ feas_in[i].dedup_status = "duplicate"
            THEN /\ f.scores = EmptyDict
                 /\ f.overall_score = 0
                 /\ f.recommendation = "skip (duplicate)"
            ELSE /\ DOMAIN f.scores = ScoreNames
                 /\ f.overall_score >= 100
                 /\ f.recommendation \in {"pursue", "monitor", "skip"}
                 /\ f = ComputeFeasibility(x)

\* a duplicate whose summary would have been recommended pursue has been
\* given the sentinel
PursuableDuplicateScored ==
    \E i \in DOMAIN feas_out :
        /\ Get(feas_in[i], "dedup_status", "novel") = "duplicate"
        /\ "strategy_summary" \in DOMAIN feas_in[i]
        /\ ComputeFeasibility(feas_in[i].strategy_summary).recommendation
               = "pursue"
        /\ feas_out[i].feasibility = DuplicateFeasibility

-----------------------------------------------------------------------------
(* Properties of dedup_agent.run.  results[i] is the annotated candidate   *)
(* at position i, and calls[i] records the comparison documents it met and  *)
(* the similarity the engine returned for it.                              *)

TextOf(repo) == BuildDescriptionText(repo)

\* the candidates among rs that the run appends to the corpus
AddedOf(rs) ==
    SelectSeq(rs, LAMBDA r : /\ r.dedup_status \in {"similar", "novel"}
                             /\ TextOf(r) # <<>>)

\* C1: for every candidate with non-blank text and s the similarity computed
\* for it, the status is duplicate iff s > 0.8, novel iff s < 0.5 and similar
\* iff 0.5 <= s <= 0.8.
ThresholdsDecideStatus ==
    \A i \in DOMAIN results :
        TextOf(results[i]) # <<>> =>
            LET s  == calls[i].sim
                st == results[i].dedup_status
            IN  /\ (st = "duplicate") <=> (s > 800000)
                /\ (st = "novel") <=> (s < 500000)
                /\ (st = "similar") <=> (500000 <= s /\ s <= 800000)

\* a candidate whose similarity is exactly 0.8 has been classified similar
SimilarityExactlyAtDuplicateThreshold ==
    \E i \in DOMAIN results :
        /\ calls[i].invoked
        /\ calls[i].sim = 800000
        /\ results[i].dedup_status = "similar"

\* C2: when run completes, the persisted corpus is the corpus of the start of
\* the run followed, in input order, by exactly the candidates classified
\* similar or novel with non-blank text; nothing is removed or reordered.
PersistedCorpusIsStartPlusAdded ==
    /\ (pc = "loop" /\ results = <<>>) => db = start_db
    /\ pc = "done" => disk_db = start_db \o AddedOf(results)

\* a completed run over a non-empty corpus that appended one candidate and
\* left out a duplicate
RunAppendedAndSkippedDuplicate ==
    /\ pc = "done"
    /\ start_db # <<>>
    /\ Len(disk_db) > Len(start_db)
    /\ \E i \in DOMAIN results : results[i].dedup_status = "duplicate"

\* C3: the candidate at position i is compared against exactly the documents
\* of the corpus of the start of the run plus those of the candidates before
\* i that were added; candidates are processed in input order.
ComparedAgainstStartPlusEarlierAdded ==
    /\ Len(calls) \in {Len(results), Len(results) + 1}
    /\ Len(results) <= Len(repos)
    /\ pc = "loop" => idx = Len(results) + 1
    /\ \A i \in DOMAIN results : results[i] = repos[i]
    /\ \A i \in DOMAIN calls :
           calls[i].texts =
               TextsOf(start_db) \o TextsOf(AddedOf(SubSeq(results, 1, i - 1)))

\* a candidate met both a loaded document and one added earlier in its batch
ComparedWithLoadedAndEarlierAdded ==
    \E i \in DOMAIN calls :
        /\ calls[i].invoked
        /\ start_db # <<>>
        /\ Len(calls[i].texts) > Len(start_db)

\* the batch is exactly A then B, with the same text, on an empty corpus
TwoIdenticalOnEmptyCorpus ==
    /\ pc \in {"done", "failed"}
    /\ start_db = <<>>
    /\ Len(repos) = 2
    /\ TextOf(repos[1]) = TextOf(repos[2])

\* C4 as stated: on an empty corpus, of two candidates with identical text
\* the first is novel and the second duplicate.
IdenticalPairNovelThenDuplicateAnyText ==
    (TwoIdenticalOnEmptyCorpus /\ pc = "done") =>
        /\ results[1].dedup_status = "novel"
        /\ results[2].dedup_status = "duplicate"

\* C4, restricted: on an empty corpus, of two candidates with identical text
\* that keeps at least one term after tokenization and stop-word removal,
\* the first is novel and the second duplicate.
IdenticalPairNovelThenDuplicate ==
    (TwoIdenticalOnEmptyCorpus /\ Analyze(TextOf(repos[1])) # <<>>) =>
        /\ pc = "done"
        /\ results[1].dedup_status = "novel"
        /\ results[2].dedup_status = "duplicate"

\* such a pair has been classified
IdenticalPairClassified ==
    /\ TwoIdenticalOnEmptyCorpus
    /\ Analyze(TextOf(repos[1])) # <<>>
    /\ Len(results) = 2

\* the next step processes a candidate whose text is blank
BlankIsNext ==
    /\ pc = "loop"
    /\ idx <= Len(repos)
    /\ TextOf(repos[idx]) = <<>>

\* C5: a candidate with blank text is classified novel with similarity 0.0,
\* the engine is not invoked, and the corpus and the comparison documents
\* are the same after it as before.
BlankIsNovelAndNotAdded ==
    [][BlankIsNext =>
          /\ Len(results') = idx
          /\ results'[idx].dedup_status = "novel"
          /\ results'[idx].max_similarity = 0
          /\ ~calls'[idx].invoked
          /\ db' = db
          /\ existing_texts' = existing_texts
          /\ disk_db' = disk_db]_vars

\* a blank candidate has been processed while the corpus held a document
BlankProcessedOnNonEmptyCorpus ==
    \E i \in DOMAIN results :
        /\ TextOf(results[i]) = <<>>
        /\ calls[i].texts # <<>>

\* C6: whenever the corpus is empty, the similarity of a new document is
\* exactly 0.0 and the candidate is classified novel.
EmptyCorpusGivesZeroAndNovel ==
    \A i \in DOMAIN calls :
        calls[i].texts = <<>> =>
            /\ ~calls[i].raised
            /\ calls[i].sim = 0
            /\ i \in DOMAIN results
            /\ results[i].dedup_status = "novel"
            /\ results[i].max_similarity = 0

\* the engine was called for a non-blank document on an empty corpus
EngineCalledOnEmptyCorpus ==
    \E i \in DOMAIN results :
        /\ calls[i].invoked
        /\ calls[i].texts = <<>>
        /\ Analyze(TextOf(results[i])) # <<>>

\* C7 as stated: every classified candidate whose text is identical to that
\* of a corpus entry has similarity >= 0.8 and is classified duplicate.
IdenticalToEntryIsDuplicateAnyText ==
    \A i \in DOMAIN results :
        TextOf(results[i]) \in Range(calls[i].texts) =>
            /\ calls[i].sim >= DUPLICATE_THRESHOLD
            /\ results[i].dedup_status = "duplicate"

\* C7, restricted: every candidate whose text keeps at least one term after
\* tokenization and stop-word removal and is identical to that of a corpus
\* entry has similarity >= 0.8 and is classified duplicate.
IdenticalToEntryIsDuplicate ==
    \A i \in DOMAIN calls :
        (/\ TextOf(repos[i]) \in Range(calls[i].texts)
         /\ Analyze(TextOf(repos[i])) # <<>>) =>
            /\ ~calls[i].raised
            /\ i \in DOMAIN results
            /\ calls[i].sim >= DUPLICATE_THRESHOLD
            /\ results[i].dedup_status = "duplicate"

\* a candidate identical to an entry of a corpus of two different documents
IdenticalToOneOfTwoEntries ==
    \E i \in DOMAIN results :
        /\ TextOf(results[i]) \in Range(calls[i].texts)
        /\ Analyze(TextOf(results[i])) # <<>>
        /\ Cardinality(Range(calls[i].texts)) >= 2

\* C8: classifying the same batch again from the same corpus gives every
\* item the same dedup_status and max_similarity (and the same outcome).
RerunGivesSameClassification ==
    prev # <<>> =>
        /\ Len(results) <= Len(prev[1].results)
        /\ \A i \in DOMAIN results :
               /\ results[i].dedup_status = prev[1].results[i].dedup_status
               /\ results[i].max_similarity = prev[1].results[i].max_similarity
        /\ pc \in {"done", "failed"} =>
               /\ pc = prev[1].outcome
               /\ Len(results) = Len(prev[1].results)

\* a second run has completed on a batch holding a duplicate and an addition
RerunCompletedWithDuplicate ==
    /\ prev # <<>>
    /\ pc = "done"
    /\ \E i \in DOMAIN results : results[i].dedup_status = "duplicate"
    /\ \E i \in DOMAIN results : calls[i].sim > 0 /\ calls[i].sim < 800000

\* C9: run writes the corpus exactly once, only after the last candidate has
\* been classified; if it fails before the write, the durable corpus is what
\* it was before the run.
WrittenOnceAfterLastCandidate ==
    /\ pc = "loop" => (writes = 0 /\ disk_db = start_db)
    /\ pc = "failed" => (writes = 0 /\ disk_db = start_db)
    /\ pc = "done" => (writes = 1 /\ Len(results) = Len(repos))

\* a run failed after a candidate had been added in memory
FailedAfterInMemoryAddition ==
    /\ pc = "failed"
    /\ Len(db) > Len(start_db)
    /\ disk_db = start_db

-----------------------------------------------------------------------------
(* Properties of orchestrator.run.  trace holds one line per stage that    *)
(* has run: its outcome, the list it was handed and that list as the stage *)
(* left it.                                                                *)

Ran(name) == \E k \in DOMAIN trace : trace[k].stage = name

Raised(name) ==
    \E k \in DOMAIN trace :
        trace[k].stage = name /\ trace[k].outcome = "raised"

LineOf(name) == trace[CHOOSE k \in DOMAIN trace : trace[k].stage = name]

\* C14: if discovery raises, the run is aborted: enrichment, novelty
\* classification, scoring and reporting do not run, and the corpus, the
\* active-tracking list and the daily full-batch file are not written.
DiscoveryFailureAborts ==
    Raised("scout") =>
        /\ stage = "aborted"
        /\ Len(trace) = 1
        /\ pc = "idle"
        /\ \E k \in DOMAIN StartFiles :
               /\ disk_db = StartFiles[k].corpus
               /\ active_disk = StartFiles[k].active
        /\ writes = 0
        /\ clock = (IF active_disk = <<>> THEN 0 ELSE 1)
        /\ full_disk = <<>>
        /\ report_disk = <<>>

\* discovery has raised in a run that found an active-tracking list
AbortedWithActiveList ==
    /\ Raised("scout")
    /\ stage = "aborted"
    /\ active_disk = << <<EarlierEntry>> >>

\* C15: if enrichment raises, the run goes on: novelty classification,
\* scoring and reporting still run, and novelty classification is handed
\* the discovery collection, every candidate in its place and none with a
\* strategy_summary.
EnrichmentFailurePassesUnenriched ==
    Raised("analyst") =>
        /\ stage \notin {"aborted", "crashed"}
        /\ stage = "complete" =>
               Ran("dedup") /\ Ran("feasibility") /\ Ran("reporter")
        /\ Ran("dedup") =>
               /\ LineOf("dedup").handed = LineOf("scout").left
               /\ \A i \in DOMAIN LineOf("dedup").handed :
                      "strategy_summary"
                          \notin DOMAIN LineOf("dedup").handed[i]

\* enrichment raised on two discovered candidates, and novelty
\* classification, scoring and reporting have run since
EnrichmentRaisedAndRunWentOn ==
    /\ stage = "complete"
    /\ Raised("analyst")
    /\ Len(LineOf("scout").left) = 2
    /\ Ran("dedup") /\ Ran("feasibility") /\ Ran("reporter")
    /\ LineOf("dedup").handed = LineOf("scout").left

\* C16: if novelty classification raises, also after it has annotated some
\* candidates, scoring and reporting still run and every candidate handed to
\* scoring is novel with similarity 0.0.
NoveltyFailureMarksAllNovel ==
    Raised("dedup") =>
        /\ stage = "complete" => Ran("feasibility") /\ Ran("reporter")
        /\ Ran("feasibility") =>
               /\ Len(LineOf("feasibility").handed)
                      = Len(LineOf("dedup").handed)
               /\ \A i \in DOMAIN LineOf("feasibility").handed :
                      LET r == LineOf("feasibility").handed[i]
                      IN  /\ DOMAIN r = DOMAIN LineOf("dedup").handed[i]
                                            \cup {"dedup_status",
                                                  "max_similarity"}
                          /\ r.dedup_status = "novel"
                          /\ r.max_similarity = 0

\* novelty classification had marked a candidate duplicate when it raised,
\* and scoring has run since
RaisedAfterMarkingDuplicate ==
    /\ Raised("dedup")
    /\ \E i \in DOMAIN LineOf("dedup").left :
           Get(LineOf("dedup").left[i], "dedup_status", "") = "duplicate"
    /\ Ran("feasibility")

\* C17: if scoring raises, the run goes on: reporting still runs and is
\* handed the classified collection, every candidate with dedup_status and
\* max_similarity and none with a feasibility result.
ScoringFailurePassesUnscored ==
    Raised("feasibility") =>
        /\ stage \notin {"aborted", "crashed"}
        /\ stage = "complete" => Ran("reporter")
        /\ Ran("reporter") =>
               \A i \in DOMAIN LineOf("reporter").handed :
                   LET r == LineOf("reporter").handed[i]
                   IN  /\ "dedup_status" \in DOMAIN r
                       /\ "max_similarity" \in DOMAIN r
                       /\ "feasibility" \notin DOMAIN r

\* scoring raised on two classified candidates, one of them enriched and
\* one a duplicate, and reporting has run since
ScoringRaisedAndReported ==
    /\ stage = "complete"
    /\ Raised("feasibility")
    /\ Ran("reporter")
    /\ Len(LineOf("reporter").handed) = 2
    /\ \E i \in 1 .. 2 :
           "strategy_summary" \in DOMAIN LineOf("reporter").handed[i]
    /\ \E i \in 1 .. 2 :
           LineOf("reporter").handed[i].dedup_status = "duplicate"

\* C18: whichever stages raise, run() ends, and it ends aborted (discovery
\* raised) or complete; no exception leaves it.
RunAlwaysEnds ==
    /\ [](stage # "crashed")
    /\ [](stage = "aborted" => Raised("scout"))
    /\ <>(stage \in {"aborted", "complete"})

\* a run is complete in which enrichment, novelty classification, scoring,
\* reporting, registration and the write of the batch have all raised
CompleteAfterEveryStageRaised ==
    /\ stage = "complete"
    /\ \A name \in {"analyst", "dedup", "feasibility", "reporter",
                    "register", "save"} : Raised(name)

\* C19 as stated: whenever reporting has run, returning or raising, run()
\* goes on to write the whole batch to {date}_full.json.
ReportingIsFollowedBySave ==
    (stage = "complete" /\ Ran("reporter")) => Ran("save")

\* recommended for pursuit and not a duplicate
Pursued(r) ==
    /\ "feasibility" \in DOMAIN r
    /\ "recommendation" \in DOMAIN r.feasibility
    /\ r.feasibility.recommendation = "pursue"
    /\ ~("dedup_status" \in DOMAIN r /\ r.dedup_status = "duplicate")

\* the ids of a list
IdsOf(list) == {list[k].id : k \in DOMAIN list}

\* the positions of the batch rs that bring a new slug to the list before:
\* pursued, the slug not in the list and not that of an earlier pursued
\* candidate of the batch
NewSlugAt(before, rs) ==
    {i \in DOMAIN rs :
         /\ Pursued(rs[i])
         /\ Slug(NameOf(rs[i])) \notin IdsOf(before)
         /\ \A j \in 1 .. i - 1 :
                Pursued(rs[j]) => Slug(NameOf(rs[j])) # Slug(NameOf(rs[i]))}

\* C20: a call of _auto_register_strategies keeps every entry of the stored
\* list as it is and in its place, appends one entry per new slug among the
\* pursued non-duplicate candidates in the order of the batch, skips a
\* candidate whose slug is in the stored list or came earlier in the batch,
\* leaves no id twice in the list, and called a second time with the same
\* batch leaves the list as the first call wrote it.
RegistrationAppendsNewSlugsOnce ==
    [][clock' # clock =>
           LET before == ReadActive
               after  == active_disk'[1]
               new    == NewSlugAt(before, collection)
           IN  /\ Len(after) = Len(before) + Cardinality(new)
               /\ SubSeq(after, 1, Len(before)) = before
               /\ \A i \in new :
                      LET e == after[Len(before)
                                     + Cardinality({j \in new : j <= i})]
                      IN  /\ e.id = Slug(NameOf(collection[i]))
                          /\ e.name = NameOf(collection[i])
                          /\ e.status = "forward-test"
               /\ \A a, b \in DOMAIN after :
                      a # b => after[a].id # after[b].id
               /\ trace # <<>> => active_disk' = active_disk]_vars

\* the registration has been applied twice to a stored list with one entry
\* and a batch of three pursued candidates: one whose slug the list has and
\* two that share a new slug, of which one entry was appended
RegisteredTwiceWithCollisions ==
    /\ stage = "registry"
    /\ Len(trace) = 2
    /\ Len(collection) = 3
    /\ \A i \in DOMAIN collection : Pursued(collection[i])
    /\ Slug(NameOf(collection[1])) = EarlierEntry.id
    /\ Slug(NameOf(collection[2])) = Slug(NameOf(collection[3]))
    /\ NameOf(collection[1]) # EarlierEntry.name
    /\ Len(active_disk[1]) = 2
    /\ active_disk[1][1] = EarlierEntry
    /\ active_disk[1][2].id = <<"g", "r", "i", "d", "-", "2">>

\* C21 as stated: when strategy_db.json is missing or cannot be parsed,
\* dedup_agent.run does not raise and goes into its loop with an empty
\* corpus; when active_strategies.json is missing or cannot be parsed,
\* _auto_register_strategies writes what it would write for an empty list.
UnreadableFileReadsAsEmpty ==
    [][/\ (pc = "idle" /\ pc' # "idle" /\ disk_db \in {<<>>, NotJson}) =>
              pc' = "loop" /\ db' = <<>> /\ existing_texts' = <<>>
       /\ (clock' # clock /\ active_disk \in {<<>>, <<NotJson>>}) =>
              active_disk' = <<RegisterEach(<<>>, collection, clock)>>]_vars

\* enrichment ran and left no candidate with a strategy_summary: it raised
\* before it finished any, or every candidate failed inside its loop
EnrichmentFailedForAll ==
    /\ Ran("analyst")
    /\ \A i \in DOMAIN LineOf("analyst").left :
           "strategy_summary" \notin DOMAIN LineOf("analyst").left[i]

\* no stage but enrichment has raised
OnlyEnrichmentRaised ==
    \A k \in DOMAIN trace :
        trace[k].outcome = "raised" => trace[k].stage = "analyst"

\* C22 as stated: in a complete run where enrichment failed for every
\* candidate and nothing else failed, novelty classification has run, every
\* candidate discovery returned is in the final collection with dedup_status
\* novel and max_similarity 0.0, and the digest is written.
EnrichmentFailureEndsAllNovel ==
    (stage = "complete" /\ EnrichmentFailedForAll /\ OnlyEnrichmentRaised) =>
        /\ Ran("dedup")
        /\ Len(collection) = Len(LineOf("scout").left)
        /\ \A i \in DOMAIN collection :
               /\ Get(collection[i], "dedup_status", "") = "novel"
               /\ Get(collection[i], "max_similarity", -1) = 0
        /\ report_disk \notin {<<>>, <<CutShort>>}

\* the digest of this run is written and shows no strategy
ReportIsEmpty ==
    /\ report_disk \notin {<<>>, <<CutShort>>}
    /\ report_disk[1].top = <<>>

\* C23 as stated: a run whose discovery raised ends with the reporter called
\* on an empty collection and an empty digest written, and a run in which
\* some stage raised has an empty digest only if it was discovery that
\* raised.
OnlyDiscoveryFailureGivesEmptyReport ==
    /\ stage = "aborted" =>
           /\ Ran("reporter")
           /\ LineOf("reporter").handed = <<>>
           /\ ReportIsEmpty
    /\ (/\ stage = "complete"
        /\ \E k \in DOMAIN trace : trace[k].outcome = "raised"
        /\ ReportIsEmpty) => Raised("scout")

\* run() has returned from a batch of three candidates with pairwise
\* different normalized texts that it took on an empty corpus
ThreeDistinctDone ==
    /\ pc = "done"
    /\ start_db = <<>>
    /\ Len(repos) = 3
    /\ \A i, j \in 1 .. 3 : i # j => TextOf(repos[i]) # TextOf(repos[j])

\* the three texts each keep a term and no two of them share one
ThreeDisjointTerms ==
    /\ \A i \in 1 .. 3 : Analyze(TextOf(repos[i])) # <<>>
    /\ \A i, j \in 1 .. 3 :
           i # j => Range(Analyze(TextOf(repos[i])))
                        \cap Range(Analyze(TextOf(repos[j]))) = {}

\* all three are novel and the persisted corpus holds the three of them
AllThreeNovelAndStored ==
    /\ \A i \in 1 .. 3 : results[i].dedup_status = "novel"
    /\ Len(disk_db) = 3
    /\ disk_db = results

\* C24 as stated: on an empty corpus, three candidates with pairwise
\* different normalized texts are all novel and all added, and the corpus
\* ends with three entries.
ThreeDistinctAllNovelAnyText == ThreeDistinctDone => AllThreeNovelAndStored

\* C24, restricted: on an empty corpus, three candidates whose normalized
\* texts each keep a term after stop-word removal and pairwise share no
\* term are all novel with similarity 0.0 and all added, and the corpus
\* ends with the three of them.
ThreeDisjointAllNovel ==
    (ThreeDistinctDone /\ ThreeDisjointTerms) =>
        /\ AllThreeNovelAndStored
        /\ \A i \in 1 .. 3 : results[i].max_similarity = 0

\* a batch of three candidates with disjoint terms has been classified
ThreeDisjointClassified ==
    /\ ThreeDistinctDone
    /\ ThreeDisjointTerms
    /\ Len(disk_db) = 3

\* the fields a stage sets on a candidate
OwnedBy(name) ==
    CASE name = "analyst" -> {"strategy_summary"}
      [] name = "dedup" -> {"dedup_status", "max_similarity"}
      [] name = "feasibility" -> {"feasibility"}
      [] OTHER -> {}

\* the dict after has every field of before, with the same value unless the
\* field is in owned, and no field besides those but fields in owned
OnlySets(before, after, owned) ==
    /\ DOMAIN before \subseteq DOMAIN after
    /\ DOMAIN after \subseteq DOMAIN before \cup owned
    /\ \A key \in DOMAIN before \ owned : after[key] = before[key]

\* every dict of the list later is a dict of the list earlier on which only
\* fields in owned were set
EachOnlySets(earlier, later, owned) ==
    \A i \in DOMAIN later :
        \E j \in DOMAIN earlier : OnlySets(earlier[j], later[i], owned)

\* the candidates a stage started from: those it was handed, and for
\* discovery those it made
CameWith(line) == IF line.stage = "scout" THEN line.left ELSE line.handed

\* C25: every stage leaves each candidate it was handed with all its fields
\* and their values, apart from the fields the stage itself sets (enrichment
\* strategy_summary, novelty classification dedup_status and max_similarity,
\* scoring feasibility, the others none); this holds for the list a stage
\* leaves, for the list the next stage is handed, also after an exception,
\* and for the candidates dedup_agent.run is working on.
StagesOnlySetTheirOwnFields ==
    /\ \A k \in DOMAIN trace :
           /\ Len(trace[k].left) = Len(CameWith(trace[k]))
           /\ \A i \in DOMAIN trace[k].handed :
                  OnlySets(trace[k].handed[i], trace[k].left[i],
                           OwnedBy(trace[k].stage))
    /\ \A k \in DOMAIN trace \ {1} :
           EachOnlySets(CameWith(trace[k - 1]), trace[k].handed,
                        OwnedBy(trace[k - 1].stage))
    /\ trace # <<>> =>
           EachOnlySets(CameWith(trace[Len(trace)]), collection,
                        OwnedBy(trace[Len(trace)].stage))
    /\ (stage = "dedup" /\ pc # "idle") =>
           /\ Len(repos) = Len(collection)
           /\ \A i \in DOMAIN repos :
                  OnlySets(collection[i], repos[i], OwnedBy("dedup"))
           /\ EachOnlySets(collection, results, OwnedBy("dedup"))
    /\ full_disk \notin {<<>>, <<NotJson>>} =>
           EachOnlySets(LineOf("scout").left, full_disk[1],
                        {"strategy_summary", "dedup_status",
                         "max_similarity", "feasibility"})

\* a run is complete in which no stage raised and a candidate got its
\* summary, was classified duplicate and got the sentinel result
CompleteWithAnnotatedDuplicate ==
    /\ stage = "complete"
    /\ \A k \in DOMAIN trace : trace[k].outcome = "returned"
    /\ Len(collection) = 2
    /\ \E i \in DOMAIN collection :
           /\ "strategy_summary" \in DOMAIN collection[i]
           /\ Get(collection[i], "dedup_status", "") = "duplicate"
           /\ "feasibility" \in DOMAIN collection[i]
    /\ full_disk = <<collection>>

\* the category tier of a candidate, <<>> when its summary has none
TierOf(r) ==
    IF "strategy_summary" \in DOMAIN r /\ "tier" \in DOMAIN r.strategy_summary
    THEN <<r.strategy_summary.tier>> ELSE <<>>

\* tier, overall score and quality of a candidate, the three ranks the
\* selection is said to go by
RankOf(r) ==
    <<IF TierOf(r) = <<>> THEN 0 ELSE TierRank(TierOf(r)[1]),
      IF "feasibility" \in DOMAIN r THEN r.feasibility.overall_score ELSE 0,
      r.quality_score>>

\* C26 as stated: the selection in the digest holds no duplicate and no
\* candidate whose tier is unresolved (Unclear, or none at all), and goes
\* down by tier, then by overall score, then by quality.
TopIsResolvedAndRanked ==
    report_disk \notin {<<>>, <<CutShort>>} =>
        LET top == report_disk[1].top
        IN  /\ \A i \in DOMAIN top :
                   /\ top[i].dedup_status # "duplicate"
                   /\ TierOf(top[i]) \notin {<<>>, <<"Unclear">>}
            /\ \A i, j \in DOMAIN top :
                   i < j => ~KeyLess(RankOf(top[i]), RankOf(top[j]))

\* the calls of the engine for a candidate whose text is not blank and keeps
\* no term, on a corpus that is not empty
TermlessCalls ==
    {i \in DOMAIN calls :
         /\ calls[i].invoked
         /\ calls[i].texts # <<>>
         /\ Analyze(TextOf(repos[i])) = <<>>}

\* C27 as stated: for a candidate whose text is not blank and keeps no term
\* after stop-word removal, on a non-empty corpus of whatever documents, the
\* engine does not raise and returns 0.0, and the candidate is novel.
TermlessDocumentGetsZero ==
    \A i \in TermlessCalls :
        /\ ~calls[i].raised
        /\ calls[i].sim = 0
        /\ i \in DOMAIN results => results[i].dedup_status = "novel"
        /\ (pc = "done" \/ i < Len(calls)) => i \in DOMAIN results

\* C28 as stated: the recorded max_similarity of every classified candidate
\* is above 0.8 if it is duplicate, below 0.5 if it is novel, and from 0.5
\* to 0.8 if it is similar.
RecordedSimilarityStrictlyAgrees ==
    \A i \in DOMAIN results :
        LET r == results[i]
        IN  /\ r.dedup_status = "duplicate" =>
                   r.max_similarity > DUPLICATE_THRESHOLD
            /\ r.dedup_status = "novel" => r.max_similarity < NOVEL_THRESHOLD
            /\ r.dedup_status = "similar" =>
                   /\ NOVEL_THRESHOLD <= r.max_similarity
                   /\ r.max_similarity <= DUPLICATE_THRESHOLD

\* C28, with the bounds rounding allows: the recorded max_similarity of a
\* duplicate is at least 0.8, that of a novel candidate at most 0.5, that of
\* a similar candidate from 0.5 to 0.8; the status is the one of the
\* similarity before rounding, and the recorded value is within 0.00005 of
\* it.
RecordedSimilarityAgrees ==
    \A i \in DOMAIN results :
        LET r == results[i]
        IN  /\ r.dedup_status = "duplicate" =>
                   r.max_similarity >= DUPLICATE_THRESHOLD
            /\ r.dedup_status = "novel" => r.max_similarity <= NOVEL_THRESHOLD
            /\ r.dedup_status = "similar" =>
                   /\ NOVEL_THRESHOLD <= r.max_similarity
                   /\ r.max_similarity <= DUPLICATE_THRESHOLD
            /\ calls[i].invoked =>
                   /\ r.dedup_status = Classify(calls[i].sim)
                   /\ r.max_similarity - calls[i].sim \in -50 .. 50

\* a run has returned in which a similarity above 0.8 made a candidate
\* duplicate and was recorded as 0.8
RoundedOntoDuplicateThreshold ==
    /\ pc = "done"
    /\ \E i \in DOMAIN results :
           /\ results[i].dedup_status = "duplicate"
           /\ calls[i].sim > DUPLICATE_THRESHOLD
           /\ results[i].max_similarity = DUPLICATE_THRESHOLD

\* the result of a candidate scored without a strategy_summary
DefaultFeasibility ==
    [scores |-> [implementation_complexity |-> 9,
                 capital_efficiency        |-> 5,
                 edge_durability           |-> 4,
                 platform_compatibility    |-> 5,
                 data_requirements         |-> 7],
     overall_score  |-> 585,
     recommendation |-> "monitor"]

\* every scored candidate that is no duplicate and has no strategy_summary
\* has the sub-scores 9, 5, 4, 5, 7, overall 5.85 and monitor
UnenrichedGetsDefault ==
    \A i \in DOMAIN collection :
        (/\ "feasibility" \in DOMAIN collection[i]
         /\ "strategy_summary" \notin DOMAIN collection[i]
         /\ Get(collection[i], "dedup_status", "novel") # "duplicate") =>
            /\ collection[i].feasibility.scores = DefaultFeasibility.scores
            /\ collection[i].feasibility.overall_score = 585
            /\ collection[i].feasibility.recommendation = "monitor"

\* C29: a scored non-duplicate candidate without strategy_summary
\* has the sub-scores 9, 5, 4, 5, 7, overall 5.85 and monitor; and in a run
\* whose enrichment stage raised no candidate is recommended pursue and the
\* registration appends nothing to the active-tracking list.
NoPursueAfterEnrichmentFailure ==
    /\ UnenrichedGetsDefault
    /\ Raised("analyst") =>
           /\ \A i \in DOMAIN collection :
                  Get(Get(collection[i], "feasibility", EmptyDict),
                      "recommendation", "") # "pursue"
           /\ \A k \in DOMAIN ReadActive : ReadActive[k] = EarlierEntry

\* a run is complete in which only enrichment raised, a candidate that is
\* no duplicate was scored without a summary, and the registration ran
\* and wrote the list without a new entry
UnenrichedScoredAndNotRegistered ==
    /\ stage = "complete"
    /\ Raised("analyst")
    /\ OnlyEnrichmentRaised
    /\ \E i \in DOMAIN collection :
           /\ "strategy_summary" \notin DOMAIN collection[i]
           /\ collection[i].dedup_status # "duplicate"
           /\ collection[i].feasibility = DefaultFeasibility
    /\ Ran("register")
    /\ active_disk \in {<< <<>> >>, << <<EarlierEntry>> >>}

\* the exact weighted sum of sub-scores, in thousandths
ExactSum(scores) ==
    10 * Sum([k \in DOMAIN WEIGHTS |-> scores[k] * WEIGHTS[k]],
             DOMAIN WEIGHTS)

\* a number of thousandths rounded to hundredths, halves upwards
RoundHalfUp(m) == (m + 5) \div 10

\* a number of thousandths rounded to hundredths, halves to the even
\* neighbour
RoundHalfEven(m) ==
    LET q == m \div 10
        r == m % 10
    IN  IF r > 5 \/ (r = 5 /\ q % 2 = 1) THEN q + 1 ELSE q

\* C30: every sub-score is an integer and every weight a multiple of 0.05,
\* so 100 times the exact weighted sum is an integer and a multiple of 5;
\* rounding to two decimals leaves the exact sum as it is, rounding halves
\* upwards and rounding halves to even give the same overall score and the
\* same recommendation, and no exact sum lies strictly between 6.99 and 7.00
\* or strictly between 4.49 and 4.50.
WeightedSumNeedsNoRounding ==
    /\ \A k \in DOMAIN WEIGHTS : WEIGHTS[k] % 5 = 0
    /\ \A i \in Computed :
           LET f == feas_out[i].feasibility
               e == ExactSum(f.scores)
           IN  /\ \A k \in DOMAIN WEIGHTS : f.scores[k] \in 1 .. 10
               /\ e % 10 = 0
               /\ (e \div 10) % 5 = 0
               /\ 10 * RoundHalfUp(e) = e
               /\ 10 * RoundHalfEven(e) = e
               /\ f.overall_score = RoundHalfUp(e)
               /\ f.overall_score = RoundHalfEven(e)
               /\ f.recommendation = Recommendation(RoundHalfUp(e))
               /\ f.recommendation = Recommendation(RoundHalfEven(e))
               /\ ~(6990 < e /\ e < 7000)
               /\ ~(4490 < e /\ e < 4500)

\* a candidate has been scored to an odd number of twentieths just below a
\* whole tenth: overall 5.85, monitor
ScoredOntoOddTwentieth ==
    \E i \in Computed :
        /\ feas_out[i].feasibility.overall_score % 10 = 5
        /\ feas_out[i].feasibility.recommendation = "monitor"

=============================================================================
